---------------------------- MODULE Spec2Model ----------------------------
(***************************************************************************)
(* A model of src/checker.rs: the judge of the "based" toy language.       *)
(* Source lines are TLA+ strings, parsed character by character as the     *)
(* Rust parser does; the interpreter state is the Program struct; the      *)
(* checker (main / work / judge / run_and_check / execute) is a state      *)
(* machine with one action per call or loop iteration.                     *)
(*                                                                         *)
(* Scaling.  i64 and usize are W bits wide instead of 64, the generator's  *)
(* signed draws are DrawBits wide instead of 60, and the array sizes of    *)
(* tasks 3 and 4 run over 1..MaxN instead of 1..50.  The generator's       *)
(* 128-bit state is represented by the number of words drawn from it; the  *)
(* word a draw returns is any word of ValueWords (IndexWords for the draw   *)
(* task 4 reduces modulo n).  The time limits are LimitSmall / LimitLarge. *)
(***************************************************************************)
EXTENDS Integers, Sequences, FiniteSets, TLC

\* ------------------------------------------------------------------ bounds
\* the width of i64 and usize (64 in the source)
W == 16
\* the width of the signed draws (60 in the source)
DrawBits == 2
\* the largest array size of tasks 3 and 4 (50 in the source)
MaxN == 2
\* the time limit of tasks 1, 2 and 3 (100 000 in the source)
LimitSmall == 1000
\* the time limit of task 4 (2 500 000 in the source)
LimitLarge == 25000
\* the number of lines of the longest of the generated short source files
MaxShortLines == 3
\* the longest digit string whose value is computed digit by digit
MaxDigits == 9

\* ------------------------------------------------------- integer arithmetic
RECURSIVE Pow2(_)
Pow2(n) == IF n = 0 THEN 1 ELSE 2 * Pow2(n - 1)

I64_MIN == 0 - Pow2(W - 1)
I64_MAX == Pow2(W - 1) - 1
USIZE_MAX == Pow2(W) - 1
\* i32, half as wide as i64
I32_MIN == 0 - Pow2((W \div 2) - 1)
I32_MAX == Pow2((W \div 2) - 1) - 1

\* two's-complement reinterpretation of an integer as a signed W-bit word
WrapI64(x) == ((x - I64_MIN) % Pow2(W)) + I64_MIN
\* `v as usize` for a signed word v
AsUsize(v) == v % Pow2(W)
\* `u as i64` for an unsigned word u
AsI64(u) == WrapI64(u)
SaturatingAdd(a, b) == IF a + b > USIZE_MAX THEN USIZE_MAX ELSE a + b

\* ----------------------------------------------------------------- strings
Char(s, i) == SubSeq(s, i, i)
Digits == {"0", "1", "2", "3", "4", "5", "6", "7", "8", "9"}
LowerLetters == {"a", "b", "c", "d", "e", "f", "g", "h", "i", "j", "k", "l", "m",
                 "n", "o", "p", "q", "r", "s", "t", "u", "v", "w", "x", "y", "z"}
UpperLetters == {"A", "B", "C", "D", "E", "F", "G", "H", "I", "J", "K", "L", "M",
                 "N", "O", "P", "Q", "R", "S", "T", "U", "V", "W", "X", "Y", "Z"}
DigitValue(c) ==
    CASE c = "0" -> 0 [] c = "1" -> 1 [] c = "2" -> 2 [] c = "3" -> 3 [] c = "4" -> 4
      [] c = "5" -> 5 [] c = "6" -> 6 [] c = "7" -> 7 [] c = "8" -> 8 [] c = "9" -> 9
LowerChar(c) ==
    CASE c = "A" -> "a" [] c = "B" -> "b" [] c = "C" -> "c" [] c = "D" -> "d"
      [] c = "E" -> "e" [] c = "F" -> "f" [] c = "G" -> "g" [] c = "H" -> "h"
      [] c = "I" -> "i" [] c = "J" -> "j" [] c = "K" -> "k" [] c = "L" -> "l"
      [] c = "M" -> "m" [] c = "N" -> "n" [] c = "O" -> "o" [] c = "P" -> "p"
      [] c = "Q" -> "q" [] c = "R" -> "r" [] c = "S" -> "s" [] c = "T" -> "t"
      [] c = "U" -> "u" [] c = "V" -> "v" [] c = "W" -> "w" [] c = "X" -> "x"
      [] c = "Y" -> "y" [] c = "Z" -> "z" [] OTHER -> c
IsWhitespace(c) == c \in {" ", "\t", "\r", "\n", "\f"}

\* str::to_lowercase on a five-character window starting at i
LowerWindow(s, i) ==
    LowerChar(Char(s, i)) \o LowerChar(Char(s, i + 1)) \o LowerChar(Char(s, i + 2))
        \o LowerChar(Char(s, i + 3)) \o LowerChar(Char(s, i + 4))
\* line.to_lowercase().find("based").is_some()
ContainsBased(line) == \E i \in 1..(Len(line) - 4) : LowerWindow(line, i) = "based"

\* str::split_whitespace: the maximal runs of non-whitespace characters, in order
TokenStarts(s) ==
    {i \in 1..Len(s) : /\ ~IsWhitespace(Char(s, i))
                       /\ (i = 1 \/ IsWhitespace(Char(s, i - 1)))}
TokenEnd(s, i) ==
    CHOOSE j \in i..Len(s) :
        /\ \A k \in i..j : ~IsWhitespace(Char(s, k))
        /\ (j = Len(s) \/ IsWhitespace(Char(s, j + 1)))
split_whitespace(s) ==
    LET starts == TokenStarts(s)
    IN [k \in 1..Cardinality(starts) |->
           LET i == CHOOSE m \in starts : Cardinality({o \in starts : o <= m}) = k
           IN SubSeq(s, i, TokenEnd(s, i))]

\* str::trim
trim(s) ==
    LET keep == {i \in 1..Len(s) : ~IsWhitespace(Char(s, i))}
    IN IF keep = {} THEN ""
       ELSE SubSeq(s, CHOOSE m \in keep : \A o \in keep : m <= o,
                      CHOOSE m \in keep : \A o \in keep : m >= o)

\* str::split_once(c): position of the first c in s, 0 when there is none
FirstIndexOf(s, c) ==
    IF \E i \in 1..Len(s) : Char(s, i) = c
    THEN CHOOSE i \in 1..Len(s) : Char(s, i) = c /\ \A j \in 1..(i - 1) : Char(s, j) # c
    ELSE 0

\* the magnitude of a digit string; 10^MaxDigits, which is above every integer
\* type's range, stands for the magnitude of every string of more than
\* MaxDigits significant digits
RECURSIVE Pow10(_)
Pow10(k) == IF k = 0 THEN 1 ELSE 10 * Pow10(k - 1)
RECURSIVE SumTo(_, _)
SumTo(f, k) == IF k = 0 THEN 0 ELSE f[k] + SumTo(f, k - 1)
Magnitude(s) ==
    LET Value(zeros) ==
          IF Len(s) - zeros > MaxDigits THEN Pow10(MaxDigits)
          ELSE SumTo([i \in 1..(Len(s) - zeros) |->
                         DigitValue(Char(s, zeros + i)) * Pow10(Len(s) - zeros - i)],
                     Len(s) - zeros)
    IN Value(Cardinality({i \in 1..Len(s) : \A j \in 1..i : Char(s, j) = "0"}))

\* <integer type>::from_str: an optional sign ('-' only for signed types),
\* at least one digit, nothing but digits, and the value within [lo, hi]
ParseInteger(s, lo, hi) ==
    LET Parse(negative, digits) ==
          LET Within(mag, cap) ==
                IF mag <= cap
                THEN [ok |-> TRUE, value |-> IF negative THEN 0 - mag ELSE mag]
                ELSE [ok |-> FALSE, value |-> 0]
          IN IF Len(digits) >= 1 /\ \A i \in 1..Len(digits) : Char(digits, i) \in Digits
             THEN Within(Magnitude(digits), IF negative THEN 0 - lo ELSE hi)
             ELSE [ok |-> FALSE, value |-> 0]
    IN IF Len(s) >= 1 /\ (Char(s, 1) = "+" \/ (lo < 0 /\ Char(s, 1) = "-"))
       THEN Parse(Char(s, 1) = "-", Tail(s))
       ELSE Parse(FALSE, s)

\* ------------------------------------------------------------ src lines 57-65
COMPRESS_LIMIT == 32
compress(string) ==
    IF Len(string) <= COMPRESS_LIMIT THEN string
    ELSE SubSeq(string, 1, COMPRESS_LIMIT - 3) \o "..."


\* ------------------------------------------------------------- src lines 5-55
NoOperand == [kind |-> "None", value |-> 0, name |-> "", index |-> 0, index_name |-> ""]
Constant(v) == [NoOperand EXCEPT !.kind = "Constant", !.value = v]
VariableOp(n) == [NoOperand EXCEPT !.kind = "Variable", !.name = n]
ArrayConstIndex(a, k) == [NoOperand EXCEPT !.kind = "ArrayConstIndex", !.name = a, !.index = k]
ArrayVarIndex(a, i) == [NoOperand EXCEPT !.kind = "ArrayVarIndex", !.name = a, !.index_name = i]

Instr(tag, dst, src) == [ins |-> tag, dst |-> dst, src |-> src]
Nop == Instr("Nop", NoOperand, NoOperand)
Return == Instr("Return", NoOperand, NoOperand)

Integer(v) == [kind |-> "Integer", int |-> v, arr |-> <<>>]
Array(a) == [kind |-> "Array", int |-> 0, arr |-> a]

Verdict(tag, line, message) == [tag |-> tag, line |-> line, message |-> message]
Correct == Verdict("Correct", 0, "")
WrongAnswer(message) == Verdict("WrongAnswer", 0, message)
TimeLimitExceeded == Verdict("TimeLimitExceeded", 0, "")
RuntimeError(line, message) == Verdict("RuntimeError", line, message)
CompileError(line, message) == Verdict("CompileError", line, message)
Based == Verdict("Based", 0, "")
OtherError(message) == Verdict("OtherError", 0, message)
NoVerdict == Verdict("None", 0, "")
CheckerFail(message) == Verdict("CheckerFail", 0, message)

\* ----------------------------------------------------------- src lines 76-122
parse_array_index(string) ==
    LET None == [some |-> FALSE, part1 |-> "", part2 |-> ""]
        Split2(i, part23) ==
          LET Split3(j) ==
                IF j = 0 \/ j # Len(part23) THEN None
                ELSE [some |-> TRUE, part1 |-> SubSeq(string, 1, i - 1),
                      part2 |-> SubSeq(part23, 1, j - 1)]
          IN Split3(FirstIndexOf(part23, "]"))
        Split1(i) == IF i = 0 THEN None ELSE Split2(i, SubSeq(string, i + 1, Len(string)))
    IN Split1(FirstIndexOf(string, "["))

is_identifier(string) ==
    /\ Len(string) >= 1
    /\ Char(string, 1) \in LowerLetters \cup UpperLetters \cup {"_"}
    /\ \A i \in 2..Len(string) :
           Char(string, i) \in LowerLetters \cup UpperLetters \cup Digits \cup {"_"}

OperandOk(operand) == [ok |-> TRUE, operand |-> operand, message |-> ""]
OperandErr(message) == [ok |-> FALSE, operand |-> NoOperand, message |-> message]

Operand_try_from(string) ==
    LET Index(pai, idx) ==
          IF is_identifier(pai.part1)
          THEN IF idx.ok THEN OperandOk(ArrayConstIndex(pai.part1, idx.value))
               ELSE IF is_identifier(pai.part2)
                    THEN OperandOk(ArrayVarIndex(pai.part1, pai.part2))
                    ELSE OperandErr("cannot parse index '" \o compress(pai.part2)
                                        \o "', should be integer or identifier")
          ELSE OperandErr("invalid identifier '" \o compress(pai.part1)
                   \o "', should contain only letters, numbers, and '_', and cannot begin with a number")
        Plain(val) ==
          IF val.ok THEN OperandOk(Constant(val.value))
          ELSE IF is_identifier(string) THEN OperandOk(VariableOp(string))
               ELSE OperandErr("cannot parse operand '" \o compress(string)
                        \o "', should be one of: integer, identifier, identifier[integer], identifier[identifier]")
        Parse(pai) ==
          IF pai.some THEN Index(pai, ParseInteger(pai.part2, 0, USIZE_MAX))
          ELSE Plain(ParseInteger(string, I64_MIN, I64_MAX))
    IN Parse(parse_array_index(string))

\* ---------------------------------------------------------- src lines 124-148
InstrOk(instruction) == [ok |-> TRUE, instruction |-> instruction, message |-> ""]
InstrErr(message) == [ok |-> FALSE, instruction |-> Nop, message |-> message]

\* the keyword templates of the match: the instruction, the number of tokens,
\* the keywords at their positions (0: any token), and the positions of the
\* dst and src operands (0: none)
Templates ==
    <<[ins |-> "Input", len |-> 2, words |-> <<"yoink", "">>, dst |-> 2, src |-> 0],
      [ins |-> "Output", len |-> 2, words |-> <<"yeet", "">>, dst |-> 0, src |-> 2],
      [ins |-> "Assign", len |-> 6, words |-> <<"bruh", "", "is", "lowkey", "just", "">>,
       dst |-> 2, src |-> 6],
      [ins |-> "Add", len |-> 6, words |-> <<"*slaps", "", "on", "top", "of", "">>,
       dst |-> 6, src |-> 2],
      [ins |-> "Sub", len |-> 7, words |-> <<"rip", "this", "", "fell", "off", "by", "">>,
       dst |-> 3, src |-> 7],
      [ins |-> "Compare", len |-> 5, words |-> <<"vibe", "check", "", "ratios", "">>,
       dst |-> 3, src |-> 5],
      [ins |-> "Jump", len |-> 3, words |-> <<"simp", "for", "">>, dst |-> 3, src |-> 0],
      [ins |-> "Return", len |-> 4, words |-> <<"go", "touch", "some", "grass">>,
       dst |-> 0, src |-> 0]>>

EndsWithStar(t) == Len(t) >= 1 /\ Char(t, Len(t)) = "*"

\* whether the tokens match template t (the guard of Add included)
Matches(tokens, t) ==
    /\ Len(tokens) = t.len
    /\ \A i \in 1..t.len : t.words[i] = "" \/ tokens[i] = t.words[i]
    /\ t.ins = "Add" => EndsWithStar(tokens[t.dst])

Instruction_try_from(string) ==
    LET \* `Ok(Tag(dst.try_into()?, src.try_into()?))`: dst is parsed first
        Build(t, d, s) ==
          IF t.dst # 0 /\ ~d.ok THEN InstrErr(d.message)
          ELSE IF t.src # 0 /\ ~s.ok THEN InstrErr(s.message)
          ELSE InstrOk(Instr(t.ins, IF t.dst # 0 THEN d.operand ELSE NoOperand,
                             IF t.src # 0 THEN s.operand ELSE NoOperand))
        DstToken(tokens, t) ==
          IF t.dst = 0 THEN ""
          ELSE IF t.ins = "Add" THEN SubSeq(tokens[t.dst], 1, Len(tokens[t.dst]) - 1)
          ELSE tokens[t.dst]
        SrcToken(tokens, t) == IF t.src = 0 THEN "" ELSE tokens[t.src]
        Arm(tokens, t) ==
          Build(t, Operand_try_from(DstToken(tokens, t)),
                Operand_try_from(SrcToken(tokens, t)))
        Match(tokens) ==
          IF tokens = <<>> THEN InstrOk(Nop)
          ELSE IF \E k \in 1..Len(Templates) : Matches(tokens, Templates[k])
          THEN Arm(tokens, Templates[CHOOSE k \in 1..Len(Templates) :
                                        Matches(tokens, Templates[k])])
          ELSE InstrErr("unknown expression: '" \o compress(string) \o "'")
    IN Match(split_whitespace(string))

\* ---------------------------------------------------------- src lines 150-169
INSTRUCTION_BASE_COST == 5

\* Program::default()
DefaultProgram ==
    [instructions |-> <<>>, costs |-> <<>>, variables |-> <<>>, input |-> <<>>,
     output |-> <<>>, runtime |-> 0, pc |-> 0, returned |-> FALSE]

\* a faulty variant of CompileLine: the line is parsed before it is searched
\* for "based"
CompileLine_parse_first(line, lineno, prog, parsed) ==
    IF ~parsed.ok
    THEN [ok |-> FALSE, verdict |-> CompileError(lineno, parsed.message),
          prog |-> DefaultProgram]
    ELSE IF ContainsBased(line)
    THEN [ok |-> FALSE, verdict |-> Based, prog |-> DefaultProgram]
    ELSE [ok |-> TRUE, verdict |-> NoVerdict,
          prog |-> [prog EXCEPT !.instructions = Append(@, parsed.instruction),
                                !.costs = Append(@, Len(line) + INSTRUCTION_BASE_COST)]]

\* the body of the loop of compile for the line `lineno` (0-based), on the
\* program built from the lines before it
CompileLine(line, lineno, prog, parsed) ==
    IF ContainsBased(line)
    THEN [ok |-> FALSE, verdict |-> Based, prog |-> DefaultProgram]
    ELSE IF parsed.ok
    THEN [ok |-> TRUE, verdict |-> NoVerdict,
          prog |-> [prog EXCEPT !.instructions = Append(@, parsed.instruction),
                                !.costs = Append(@, Len(line) + INSTRUCTION_BASE_COST)]]
    ELSE [ok |-> FALSE, verdict |-> CompileError(lineno, parsed.message),
          prog |-> DefaultProgram]

\* the loop of compile over the lines lo .. hi - 1 (0-based), in order, from
\* the result `sofar` of the lines before them; an Err returns at once
RECURSIVE CompileFrom(_, _, _, _)
CompileFrom(lines, lo, hi, sofar) ==
    IF ~sofar.ok \/ lo >= hi THEN sofar
    ELSE IF hi = lo + 1
    THEN CompileLine(lines[lo + 1], lo, sofar.prog, Instruction_try_from(lines[lo + 1]))
    ELSE CompileFrom(lines, (lo + hi) \div 2, hi,
                     CompileFrom(lines, lo, (lo + hi) \div 2, sofar))

compile(lines) ==
    CompileFrom(lines, 0, Len(lines), [ok |-> TRUE, verdict |-> NoVerdict,
                                       prog |-> DefaultProgram])

\* ---------------------------------------------------------- src lines 170-210
Bound(vars, name) == name \in DOMAIN vars
\* HashMap::insert
Insert(vars, name, v) ==
    [x \in (DOMAIN vars) \cup {name} |-> IF x = name THEN v ELSE vars[x]]

ValOk(v) == [ok |-> TRUE, value |-> v, err |-> NoVerdict]
ValErr(e) == [ok |-> FALSE, value |-> 0, err |-> e]
ArrOk(a) == [ok |-> TRUE, arr |-> a, err |-> NoVerdict]
ArrErr(e) == [ok |-> FALSE, arr |-> <<>>, err |-> e]
\* a place a &mut i64 points to: an Integer variable (slot 0) or the element
\* slot (1-based) of an Array variable; vars is the environment the call leaves
RefOk(vars, name, slot) ==
    [ok |-> TRUE, vars |-> vars, name |-> name, slot |-> slot, err |-> NoVerdict]
RefErr(e) == [ok |-> FALSE, vars |-> <<>>, name |-> "", slot |-> 0, err |-> e]

get_int_mut(p, var_name) ==
    IF ~Bound(p.variables, var_name)
    THEN ValErr(RuntimeError(p.pc, "no such variable " \o compress(var_name)))
    ELSE IF p.variables[var_name].kind = "Array"
    THEN ValErr(RuntimeError(p.pc, "expected integer, found array " \o compress(var_name)))
    ELSE ValOk(p.variables[var_name].int)

\* a faulty variant of get_int_mut_or_default: a name bound to an Array is
\* bound anew to the Integer 0
get_int_mut_or_default_rebinds(p, var_name) ==
    IF Bound(p.variables, var_name) /\ p.variables[var_name].kind = "Integer"
    THEN RefOk(p.variables, var_name, 0)
    ELSE RefOk(Insert(p.variables, var_name, Integer(0)), var_name, 0)

get_int_mut_or_default(p, var_name) ==
    IF Bound(p.variables, var_name)
    THEN IF p.variables[var_name].kind = "Array"
         THEN RefErr(RuntimeError(p.pc,
                  "expected integer, found array " \o compress(var_name)))
         ELSE RefOk(p.variables, var_name, 0)
    ELSE RefOk(Insert(p.variables, var_name, Integer(0)), var_name, 0)

get_arr_mut(p, var_name) ==
    IF ~Bound(p.variables, var_name)
    THEN ArrErr(RuntimeError(p.pc, "no such variable " \o compress(var_name)))
    ELSE IF p.variables[var_name].kind = "Integer"
    THEN ArrErr(RuntimeError(p.pc, "expected array, found integer " \o compress(var_name)))
    ELSE ArrOk(p.variables[var_name].arr)

\* ---------------------------------------------------------- src lines 211-255
OutOfBounds(p, index) ==
    RuntimeError(p.pc, "index " \o ToString(index) \o " out of bounds")

\* `array.get(index)` of get_value, on the result of get_arr_mut
ValueAt(p, array, index) ==
    IF ~array.ok THEN ValErr(array.err)
    ELSE IF index < Len(array.arr) THEN ValOk(array.arr[index + 1])
    ELSE ValErr(OutOfBounds(p, index))

get_value(p, operand) ==
    LET Indexed(idx) ==
          IF ~idx.ok THEN ValErr(idx.err)
          ELSE ValueAt(p, get_arr_mut(p, operand.name), AsUsize(idx.value))
    IN CASE operand.kind = "Constant" -> ValOk(operand.value)
         [] operand.kind = "Variable" -> get_int_mut(p, operand.name)
         [] operand.kind = "ArrayConstIndex" ->
               ValueAt(p, get_arr_mut(p, operand.name), operand.index)
         [] operand.kind = "ArrayVarIndex" -> Indexed(get_int_mut(p, operand.index_name))

\* `array.get_mut(index)` of get_reference_mut, on the result of get_arr_mut
ReferenceAt(p, name, array, index) ==
    IF ~array.ok THEN RefErr(array.err)
    ELSE IF index < Len(array.arr) THEN RefOk(p.variables, name, index + 1)
    ELSE RefErr(OutOfBounds(p, index))

get_reference_mut(p, operand) ==
    LET Indexed(idx) ==
          IF ~idx.ok THEN RefErr(idx.err)
          ELSE ReferenceAt(p, operand.name, get_arr_mut(p, operand.name),
                           AsUsize(idx.value))
    IN CASE operand.kind = "Constant" ->
               RefErr(RuntimeError(p.pc,
                   "integer constant " \o ToString(operand.value) \o " is not &mut i64"))
         [] operand.kind = "Variable" -> get_int_mut_or_default(p, operand.name)
         [] operand.kind = "ArrayConstIndex" ->
               ReferenceAt(p, operand.name, get_arr_mut(p, operand.name), operand.index)
         [] operand.kind = "ArrayVarIndex" -> Indexed(get_int_mut(p, operand.index_name))

\* the i64 a reference points to, and the environment after a store through it
Deref(ref) ==
    IF ref.slot = 0 THEN ref.vars[ref.name].int ELSE ref.vars[ref.name].arr[ref.slot]
Store(ref, v) ==
    IF ref.slot = 0 THEN [ref.vars EXCEPT ![ref.name] = Integer(v)]
    ELSE [ref.vars EXCEPT ![ref.name] = Array([@.arr EXCEPT ![ref.slot] = v])]

\* ---------------------------------------------------------- src lines 256-264
add_input(p, variable) == [p EXCEPT !.input = Append(@, variable)]
has_output(p) == p.output # <<>>

\* ---------------------------------------------------------- src lines 265-337
\* the outcome of one step: the program after it, the error it returned (if
\* any), and whether an integer operation of the step overflowed.  prog is
\* computed with wrapping arithmetic; a build with overflow checks panics
\* at the overflowing operation instead.
StepOk(p, overflow) == [ok |-> TRUE, prog |-> p, err |-> NoVerdict, overflow |-> overflow]
StepErr(p, e) == [ok |-> FALSE, prog |-> p, err |-> e, overflow |-> FALSE]

\* faulty variants of StoreTo: `-=` subtracts the place from the value; `+=`
\* subtracts
StoreTo_sub_swapped(p, cur_pc, dst, src, tag) ==
    LET Write(ref, exact) ==
          StepOk([p EXCEPT !.variables = Store(ref, WrapI64(exact)), !.pc = cur_pc + 1],
                 exact # WrapI64(exact))
        Place(v, ref) ==
          IF ~ref.ok THEN StepErr(p, ref.err)
          ELSE Write(ref, CASE tag = "Assign" -> v.value
                            [] tag = "Add" -> Deref(ref) + v.value
                            [] tag = "Sub" -> v.value - Deref(ref))
        Value(v) ==
          IF ~v.ok THEN StepErr(p, v.err) ELSE Place(v, get_reference_mut(p, dst))
    IN Value(get_value(p, src))
StoreTo_add_subtracts(p, cur_pc, dst, src, tag) ==
    LET Write(ref, exact) ==
          StepOk([p EXCEPT !.variables = Store(ref, WrapI64(exact)), !.pc = cur_pc + 1],
                 exact # WrapI64(exact))
        Place(v, ref) ==
          IF ~ref.ok THEN StepErr(p, ref.err)
          ELSE Write(ref, CASE tag = "Assign" -> v.value
                            [] tag = "Add" -> Deref(ref) - v.value
                            [] tag = "Sub" -> Deref(ref) - v.value)
        Value(v) ==
          IF ~v.ok THEN StepErr(p, v.err) ELSE Place(v, get_reference_mut(p, dst))
    IN Value(get_value(p, src))

\* `*get_reference_mut(dst)? = f(*dst, get_value(src)?)`: the value operand is
\* evaluated first, then the place; f is the exact (unwrapped) result
StoreTo(p, cur_pc, dst, src, tag) ==
    LET Write(ref, exact) ==
          StepOk([p EXCEPT !.variables = Store(ref, WrapI64(exact)), !.pc = cur_pc + 1],
                 exact # WrapI64(exact))
        Place(v, ref) ==
          IF ~ref.ok THEN StepErr(p, ref.err)
          ELSE Write(ref, CASE tag = "Assign" -> v.value
                            [] tag = "Add" -> Deref(ref) + v.value
                            [] tag = "Sub" -> Deref(ref) - v.value)
        Value(v) ==
          IF ~v.ok THEN StepErr(p, v.err) ELSE Place(v, get_reference_mut(p, dst))
    IN Value(get_value(p, src))

\* a faulty variant of CompareTo: it skips two lines
CompareTo_skips_two(p, cur_pc, dst, src) ==
    LET Ratio(a, b) ==
          StepOk([p EXCEPT !.pc = IF ~(a.value > b.value) THEN cur_pc + 3 ELSE cur_pc + 1],
                 FALSE)
        Second(a, b) == IF ~b.ok THEN StepErr(p, b.err) ELSE Ratio(a, b)
        Left(a) == IF ~a.ok THEN StepErr(p, a.err) ELSE Second(a, get_value(p, src))
    IN Left(get_value(p, dst))

\* a faulty variant of CompareTo: equal operands do not skip
CompareTo_equal_falls_through(p, cur_pc, dst, src) ==
    LET Ratio(a, b) ==
          StepOk([p EXCEPT !.pc = IF a.value < b.value THEN cur_pc + 2 ELSE cur_pc + 1],
                 FALSE)
        Second(a, b) == IF ~b.ok THEN StepErr(p, b.err) ELSE Ratio(a, b)
        Left(a) == IF ~a.ok THEN StepErr(p, a.err) ELSE Second(a, get_value(p, src))
    IN Left(get_value(p, dst))

\* the arm of Instruction::Compare: both operands are read, dst first, and
\* the line after the next is skipped to unless dst > src
CompareTo(p, cur_pc, dst, src) ==
    LET Ratio(a, b) ==
          StepOk([p EXCEPT !.pc = IF ~(a.value > b.value) THEN cur_pc + 2 ELSE cur_pc + 1],
                 FALSE)
        Second(a, b) == IF ~b.ok THEN StepErr(p, b.err) ELSE Ratio(a, b)
        Left(a) == IF ~a.ok THEN StepErr(p, a.err) ELSE Second(a, get_value(p, src))
    IN Left(get_value(p, dst))

\* the arm of Instruction::Jump: `next_pc = (line - 1) as usize`; line - 1
\* overflows for the least i64
JumpTo(p, cur_pc, dst) ==
    IF dst.kind # "Constant"
    THEN StepErr(p, RuntimeError(cur_pc, "simp operand must be a constant"))
    ELSE StepOk([p EXCEPT !.pc = AsUsize(WrapI64(dst.value - 1))], dst.value = I64_MIN)

\* the arms of the match of execute_one, on the program p after the cost of
\* the instruction was charged
Arm(p, cur_pc, ins, dst, src) ==
    LET Put(output) ==
          IF ~output.ok THEN StepErr(p, output.err)
          ELSE StepOk([p EXCEPT !.output = Append(@, Integer(output.value)),
                                !.pc = cur_pc + 1], FALSE)
    IN CASE ins = "Nop" -> StepOk([p EXCEPT !.pc = cur_pc + 1], FALSE)
         [] ins = "Input" ->
               IF dst.kind # "Variable"
               THEN StepErr(p, RuntimeError(cur_pc, "input operand must be an identifier"))
               ELSE IF p.input = <<>>
               THEN StepErr(p, RuntimeError(cur_pc, "you're reading from nothing"))
               ELSE StepOk([p EXCEPT !.variables = Insert(@, dst.name, Head(p.input)),
                                     !.input = Tail(@), !.pc = cur_pc + 1], FALSE)
         [] ins = "Output" ->
               IF src.kind = "Variable"
               THEN IF ~Bound(p.variables, src.name)
                    THEN StepErr(p, RuntimeError(cur_pc, "you're printing nothing"))
                    ELSE StepOk([p EXCEPT !.output = Append(@, p.variables[src.name]),
                                          !.pc = cur_pc + 1], FALSE)
               ELSE Put(get_value(p, src))
         [] ins \in {"Assign", "Add", "Sub"} -> StoreTo(p, cur_pc, dst, src, ins)
         [] ins = "Compare" -> CompareTo(p, cur_pc, dst, src)
         [] ins = "Jump" -> JumpTo(p, cur_pc, dst)
         [] ins = "Return" -> StepOk([p EXCEPT !.returned = TRUE, !.pc = cur_pc + 1], FALSE)

\* a faulty variant of execute_one: the cost of a line is charged only when
\* its instruction completes
execute_one_charge_on_success(p0) ==
    LET Charged(r, cost) ==
          IF r.ok THEN [r EXCEPT !.prog.runtime = SaturatingAdd(@, cost)] ELSE r
        Fetched(cur_pc, instruction) ==
          Charged(Arm(p0, cur_pc, instruction.ins, instruction.dst, instruction.src),
                  p0.costs[cur_pc + 1])
        Step(cur_pc) ==
          IF cur_pc >= Len(p0.instructions)
          THEN [StepErr(p0, RuntimeError(cur_pc, "that's not even a line"))
                   EXCEPT !.overflow = (cur_pc = USIZE_MAX)]
          ELSE Fetched(cur_pc, p0.instructions[cur_pc + 1])
    IN Step(p0.pc)

\* a faulty variant of execute_one: running past the last line ends the
\* program as a Return would
execute_one_fall_off(p0) ==
    LET Fetched(cur_pc, instruction) ==
          Arm([p0 EXCEPT !.runtime = SaturatingAdd(@, p0.costs[cur_pc + 1])],
              cur_pc, instruction.ins, instruction.dst, instruction.src)
        Step(cur_pc) ==
          IF cur_pc >= Len(p0.instructions)
          THEN StepOk([p0 EXCEPT !.returned = TRUE], FALSE)
          ELSE Fetched(cur_pc, p0.instructions[cur_pc + 1])
    IN Step(p0.pc)

execute_one(p0) ==
    LET Fetched(cur_pc, instruction) ==
          Arm([p0 EXCEPT !.runtime = SaturatingAdd(@, p0.costs[cur_pc + 1])],
              cur_pc, instruction.ins, instruction.dst, instruction.src)
        Step(cur_pc) ==
          IF cur_pc >= Len(p0.instructions)
          THEN [StepErr(p0, RuntimeError(cur_pc, "that's not even a line"))
                   EXCEPT !.overflow = (cur_pc = USIZE_MAX)]
          ELSE Fetched(cur_pc, p0.instructions[cur_pc + 1])
    IN Step(p0.pc)

\* ---------------------------------------------------------- src lines 351-379
\* the words a call of Pcg128::next may return, up to what the caller reads of
\* them: next_signed keeps the DrawBits high bits, Task4 the residue modulo n
ValueWords == {h * Pow2(W - DrawBits) : h \in 0..(Pow2(DrawBits) - 1)}
IndexWords(n) == 0..(n - 1)
\* `self.next() as i64 >> (64 - bits)` for the word the call of next returned
next_signed(word, bits) == AsI64(word) \div Pow2(W - bits)
\* the width of the signed draws (60 of 64 bits in the source)
SIGNED_BITS == DrawBits

\* ---------------------------------------------------------- src lines 404-454
\* `*a.iter().max().unwrap()`
MaxOf(a) == CHOOSE x \in {a[i] : i \in 1..Len(a)} : \A i \in 1..Len(a) : a[i] <= x
\* a faulty variant of select_nth: it counts `index` in descending order
select_nth_descending(a, index) ==
    LET vals == {a[i] : i \in 1..Len(a)}
    IN CHOOSE x \in vals :
           /\ Cardinality({i \in 1..Len(a) : a[i] > x}) <= index
           /\ index < Cardinality({i \in 1..Len(a) : a[i] >= x})

\* `*a.clone().select_nth_unstable(index).1`: the element at `index` (0-based)
\* of the array in ascending order
select_nth(a, index) ==
    LET vals == {a[i] : i \in 1..Len(a)}
    IN CHOOSE x \in vals :
           /\ Cardinality({i \in 1..Len(a) : a[i] < x}) <= index
           /\ index < Cardinality({i \in 1..Len(a) : a[i] <= x})

\* the number of words one trial draws
DrawsPerTrial(task, n) ==
    CASE task = 1 -> 2 [] task = 2 -> 1 [] task = 3 -> n [] task = 4 -> n + 1

\* the words the calls of next in one trial may return, in the order drawn
Streams(task, n) ==
    IF task = 4
    THEN {[i \in 1..(n + 1) |-> IF i = 1 THEN k ELSE a[i - 1]] :
             k \in IndexWords(n), a \in [1..n -> ValueWords]}
    ELSE [1..DrawsPerTrial(task, n) -> ValueWords]

Abs(a) == IF a < 0 THEN 0 - a ELSE a

\* a faulty variant of prepare_test_case: Task4 fills the array before it
\* draws k
prepare_test_case_array_first(task, n, p, stream) ==
    CASE task = 1 ->
            LET a == next_signed(stream[1], SIGNED_BITS)
                b == next_signed(stream[2], SIGNED_BITS)
            IN [prog |-> add_input(add_input(p, Integer(a)), Integer(b)),
                answer |-> WrapI64(a + b)]
      [] task = 2 ->
            LET a == next_signed(stream[1], SIGNED_BITS)
            IN [prog |-> add_input(p, Integer(a)), answer |-> WrapI64(Abs(a))]
      [] task = 3 ->
            LET a == [i \in 1..n |-> next_signed(stream[i], SIGNED_BITS)]
            IN [prog |-> add_input(add_input(p, Integer(n)), Array(a)),
                answer |-> MaxOf(a)]
      [] task = 4 ->
            LET a == [i \in 1..n |-> next_signed(stream[i], SIGNED_BITS)]
                k == (stream[n + 1] % n) + 1
            IN [prog |-> add_input(add_input(add_input(p, Integer(n)), Array(a)),
                                   Integer(k)),
                answer |-> select_nth(a, n - k)]

\* prepare_test_case of Task1, Task2, Task3(n), Task4(n) on program p;
\* stream[i] is the word the i-th call of next in this trial returns
prepare_test_case(task, n, p, stream) ==
    CASE task = 1 ->
            LET a == next_signed(stream[1], SIGNED_BITS)
                b == next_signed(stream[2], SIGNED_BITS)
            IN [prog |-> add_input(add_input(p, Integer(a)), Integer(b)),
                answer |-> WrapI64(a + b)]
      [] task = 2 ->
            LET a == next_signed(stream[1], SIGNED_BITS)
            IN [prog |-> add_input(p, Integer(a)), answer |-> WrapI64(Abs(a))]
      [] task = 3 ->
            LET a == [i \in 1..n |-> next_signed(stream[i], SIGNED_BITS)]
            IN [prog |-> add_input(add_input(p, Integer(n)), Array(a)),
                answer |-> MaxOf(a)]
      [] task = 4 ->
            LET k == (stream[1] % n) + 1
                a == [i \in 1..n |-> next_signed(stream[i + 1], SIGNED_BITS)]
            IN [prog |-> add_input(add_input(add_input(p, Integer(n)), Array(a)),
                                   Integer(k)),
                answer |-> select_nth(a, n - k)]

\* ---------------------------------------------------------- src lines 383-401
\* a faulty variant of check_output: it forgets to look for further outputs
\* behind the first
check_output_first_only(output, answer) ==
    IF output = <<>> THEN WrongAnswer("print something")
    ELSE IF Head(output).kind = "Integer"
    THEN IF Head(output).int # answer THEN WrongAnswer("git gud") ELSE Correct
    ELSE WrongAnswer("U PRINTERD AN ENTRIE ARRAY???")

\* the match of run_and_check on program.get_output(), after execute returned
\* Ok: output is the queue execute left
check_output(output, answer) ==
    IF output = <<>> THEN WrongAnswer("print something")
    ELSE IF Head(output).kind = "Integer"
    THEN IF Tail(output) # <<>> THEN WrongAnswer("too much stuff printed")
         ELSE IF Head(output).int # answer THEN WrongAnswer("git gud")
         ELSE Correct
    ELSE WrongAnswer("U PRINTERD AN ENTRIE ARRAY???")

\* ---------------------------------------------------------- src lines 456-503
TRIALS_1 == 10
TRIALS_2 == 10
TASK4_DIVIDEND == 25

\* the time_limit argument of run_and_check
TimeLimit(task) ==
    CASE task = 1 -> LimitSmall [] task = 2 -> LimitSmall
      [] task = 3 -> LimitSmall [] task = 4 -> LimitLarge

\* the loops of judge: the values of the outer loop variable (the array size
\* n of tasks 3 and 4; tasks 1 and 2 have a single loop, size 0 here) and the
\* number of trials the loop body runs for one value of it
\* a faulty variant of Repeats: task 4 without the `+ 1`
Repeats_no_extra(task, n) ==
    CASE task = 1 -> TRIALS_1 [] task = 2 -> TRIALS_2 [] task = 3 -> 1
      [] task = 4 -> TASK4_DIVIDEND \div n

FirstSize(task) == IF task \in {1, 2} THEN 0 ELSE 1
LastSize(task) == IF task \in {1, 2} THEN 0 ELSE MaxN
Repeats(task, n) ==
    CASE task = 1 -> TRIALS_1 [] task = 2 -> TRIALS_2 [] task = 3 -> 1
      [] task = 4 -> (TASK4_DIVIDEND \div n) + 1

\* `continue`: the trial after trial (n, rep); done when the loops are over
NextTrial(task, n, rep) ==
    IF rep + 1 < Repeats(task, n) THEN [done |-> FALSE, n |-> n, rep |-> rep + 1]
    ELSE IF n < LastSize(task) THEN [done |-> FALSE, n |-> n + 1, rep |-> 0]
    ELSE [done |-> TRUE, n |-> n, rep |-> rep]

\* ------------------------------------------------------------- the inputs
\* a run of k spaces
RECURSIVE Spaces(_)
Spaces(k) ==
    IF k = 0 THEN ""
    ELSE IF k % 2 = 0 THEN LET h == Spaces(k \div 2) IN h \o h
    ELSE " " \o Spaces(k - 1)

\* blank lines that cost LimitSmall - 71 together: with the 61 of the four
\* lines of the sum program before them, runtime is LimitSmall - 10 when the
\* line after them is fetched
RECURSIVE Blank(_)
Blank(cost) ==
    IF cost <= 105 THEN <<Spaces(cost - 5)>> ELSE <<Spaces(95)>> \o Blank(cost - 100)
Padding == Blank(LimitSmall - 71)
SumLines == <<"yoink a", "yoink b", "*slaps b on top of a*", "yeet a">>

\* the source files the checker may be given, by name
Sources ==
    [sum |-> SumLines \o <<"go touch some grass">>,
     sum_b |-> <<"yoink a", "yoink b", "*slaps b on top of a*", "yeet b",
                 "go touch some grass">>,
     abs |-> <<"yoink a", "bruh z is lowkey just 0", "vibe check z ratios a",
               "simp for 7", "rip this z fell off by a", "bruh a is lowkey just z",
               "yeet a", "go touch some grass">>,
     abs_jump |-> <<"yoink a", "bruh z is lowkey just 0", "vibe check z ratios a",
                    "simp for 7", "yeet a", "go touch some grass",
                    "rip this z fell off by a", "yeet z", "go touch some grass">>,
     max |-> <<"yoink n", "yoink a", "bruh m is lowkey just a[0]",
               "bruh i is lowkey just 1", "vibe check n ratios i", "simp for 9",
               "yeet m", "go touch some grass", "vibe check a[i] ratios m",
               "bruh m is lowkey just a[i]", "*slaps 1 on top of i*", "simp for 5">>,
     first |-> <<"yoink n", "yoink a", "yeet a[0]", "go touch some grass">>,
     grass |-> <<"go touch some grass">>,
     nops |-> <<"", "", "", "">>,
     nops_full |-> [i \in 1..(LimitSmall \div 5) |-> ""],
     nops_over |-> [i \in 1..((LimitSmall \div 5) + 1) |-> ""],
     sum_twice |-> SumLines \o <<"yeet a", "go touch some grass">>,
     sum_fall |-> SumLines,
     sum_spin |-> SumLines \o <<"simp for 5" \o Spaces(85)>>,
     arr |-> <<"yoink n", "yoink a", "yeet a", "yeet n", "go touch some grass">>,
     int_arr |-> <<"yoink n", "yoink a", "yeet n", "yeet a", "go touch some grass">>,
     spin |-> <<"simp for 1" \o Spaces(85)>>,
     late_return |-> SumLines \o Padding \o <<"go touch some grass">>,
     late_error |-> SumLines \o Padding \o <<"yeet nothing">>,
     late_nop |-> SumLines \o Padding \o <<Spaces(15), "go touch some grass">>,
     jump0 |-> <<"simp for 0">>,
     cmp_last |-> <<"yoink a", "vibe check 0 ratios a">>,
     arr_write |-> <<"yoink n", "yoink a", "bruh i is lowkey just 0",
                     "bruh a[i] is lowkey just 7", "*slaps n on top of a[i]*",
                     "rip this a[0] fell off by 1", "yeet a[0]", "go touch some grass">>,
     based |-> <<"yoink a", "this is BaSed", "go touch some grass">>,
     based_after_bad |-> <<"yoink a", "what", "based">>,
     based_before_bad |-> <<"yoink a", "yeet based", "what">>,
     bad |-> <<"yoink a", "", "yoink 1x", "go touch some grass">>]

\* further source files, named by their lines: one letter per line, "p" a
\* line that parses, "q" a line that parses and contains "based", "x" a
\* line that does not parse, "y" a line that does not parse and contains
\* "based"; every such file of 1 .. MaxShortLines lines
ShortLine(c) ==
    CASE c = "p" -> "yoink a" [] c = "q" -> "yeet BASED"
      [] c = "x" -> "what" [] c = "y" -> "this is BaSed"
RECURSIVE ShortNames(_)
ShortNames(k) ==
    IF k = 0 THEN {""}
    ELSE {c \o w : c \in {"p", "q", "x", "y"}, w \in ShortNames(k - 1)}

\* further source files, named by their third line: two inputs are read
\* into n and a (u stays unbound), then one instruction over operands of
\* every shape and state, then an empty line and a return
ProbeDsts == {"n", "a", "u", "a[0]", "a[n]", "a[u]", "a[9]", "n[0]", "u[0]", "3"}
ProbeSrcs == {"1", ToString(I64_MAX), ToString(I64_MIN), "n", "a", "u", "a[0]", "a[n]",
              "a[u]", "u[0]"}
ProbeRatios == {"n", "a", "u", "a[0]", "0", "1"}
ProbeInputs == {"n", "a", "u", "a[0]", "3"}
ProbeTargets == {"0", "-1", "1", "4", "5", "6", "7", "100", ToString(I64_MIN), "n", "a[0]"}
ProbeLines ==
    {"bruh " \o d \o " is lowkey just " \o v : d \in ProbeDsts, v \in ProbeSrcs}
    \cup {"*slaps " \o v \o " on top of " \o d \o "*" : d \in ProbeDsts, v \in ProbeSrcs}
    \cup {"rip this " \o d \o " fell off by " \o v : d \in ProbeDsts, v \in ProbeSrcs}
    \cup {"vibe check " \o d \o " ratios " \o v : d \in ProbeRatios, v \in ProbeRatios}
    \cup {"yeet " \o v : v \in ProbeSrcs}
    \cup {"yoink " \o d : d \in ProbeInputs}
    \cup {"simp for " \o t : t \in ProbeTargets}
ProbeProgram(line) == <<"yoink n", "yoink a", line, "", "go touch some grass">>

SourceNames ==
    DOMAIN Sources \cup UNION {ShortNames(k) : k \in 1..MaxShortLines} \cup ProbeLines
SourceLines(name) ==
    IF name \in DOMAIN Sources THEN Sources[name]
    ELSE IF name \in ProbeLines THEN ProbeProgram(name)
    ELSE [i \in 1..Len(name) |-> ShortLine(Char(name, i))]

\* the contents the task-id file may have
TaskFiles == {"1", " 2\n", "3", "4 ", "0", "5", "-1", "four", ""}

\* ---------------------------------------------------------------- the state
VARIABLES
    at,         \* where the checker is: work, judge, prepare, execute, trial_end,
                \* judge_ret, main, exit, abort
    build,      \* what is known of the build: "unknown", or "wrapping" once an
                \* integer overflow has wrapped, or "checked" once one has panicked
    task,       \* work: the task id parsed from the task-id file
    file,       \* work/judge: the file being judged, "ans" (jury) or "ouf" (candidate)
    opened,     \* the files judge has opened so far, in order
    source,     \* judge: the name of the contents of the file it read
    template,   \* judge: `program`, the compiled program
    rng,        \* judge: `rng`, as the number of words drawn since Pcg128::new
    n,          \* judge: the outer loop variable
    rep,        \* judge: the trial loop counter
    prog,       \* run_and_check: `program`, the clone being run
    answer,     \* run_and_check: `answer`
    drawn,      \* prepare_test_case: the words its calls of next returned, in order
    steps,      \* execute: the calls of execute_one that returned Ok so far
    first,      \* run_and_check: the outputs program.get_output() returned (none or one)
    verdict,    \* run_and_check: the verdict returned
    jres,       \* work: the result of judge for each file
    wres,       \* main: the result of work
    exitCode    \* the exit code of the process, -1 while it runs

vars == <<at, build, task, file, opened, source, template, rng, n, rep, prog, answer,
          drawn, steps, first, verdict, jres, wres, exitCode>>

Ok(v) == [set |-> TRUE, ok |-> TRUE, val |-> v]
Err(e) == [set |-> TRUE, ok |-> FALSE, val |-> e]
NoResult == [set |-> FALSE, ok |-> FALSE, val |-> NoVerdict]

Init ==
    /\ at = "work"
    /\ build = "unknown"
    /\ task = 0
    /\ file = "none"
    /\ opened = <<>>
    /\ source = "none"
    /\ template = DefaultProgram
    /\ rng = 0
    /\ n = 0
    /\ rep = 0
    /\ prog = DefaultProgram
    /\ answer = 0
    /\ drawn = <<>>
    /\ steps = 0
    /\ first = <<>>
    /\ verdict = NoVerdict
    /\ jres = [ans |-> NoResult, ouf |-> NoResult]
    /\ wres = NoResult
    /\ exitCode = -1

trialVars == <<prog, answer, drawn, steps, first, verdict>>
judgeVars == <<source, template, rng, n, rep>>

\* ---------------------------------------------------------- src lines 505-510
\* work up to its call of judge(task, ans):
\* `std::fs::read_to_string(inf)?.trim().parse()?`
ReadTask ==
    /\ at = "work"
    /\ \E readOk \in BOOLEAN, content \in TaskFiles :
         \E parsed \in {ParseInteger(trim(content), I32_MIN, I32_MAX)} :
            IF ~readOk
            THEN /\ wres' = Err(CheckerFail("io error"))
                 /\ at' = "main"
                 /\ UNCHANGED <<task, file>>
            ELSE IF ~parsed.ok
            THEN /\ wres' = Err(CheckerFail("ParseIntError"))
                 /\ at' = "main"
                 /\ UNCHANGED <<task, file>>
            ELSE /\ task' = parsed.value
                 /\ file' = "ans"
                 /\ at' = "judge"
                 /\ UNCHANGED wres
    /\ UNCHANGED <<build, opened, jres, exitCode>>
    /\ UNCHANGED judgeVars
    /\ UNCHANGED trialVars

\* ---------------------------------------------------------- src lines 456-463
\* judge from its entry to the first trial: open and read the file, compile,
\* seed the generator, dispatch on the task id
JudgeOpen ==
    /\ at = "judge"
    /\ opened' = Append(opened, file)
    /\ \E readOk \in BOOLEAN, name \in SourceNames :
         IF ~readOk
         THEN /\ jres' = [jres EXCEPT ![file] = Err(CheckerFail("io error"))]
              /\ at' = "judge_ret"
              /\ UNCHANGED judgeVars
         ELSE \E compiled \in {compile(SourceLines(name))} :
              IF ~compiled.ok
              THEN /\ jres' = [jres EXCEPT ![file] = Ok(compiled.verdict)]
                   /\ at' = "judge_ret"
                   /\ source' = name
                   /\ UNCHANGED <<template, rng, n, rep>>
              ELSE IF task \notin 1..4
              THEN /\ jres' = [jres EXCEPT ![file] =
                                  Err(CheckerFail("unknown task id " \o ToString(task)))]
                   /\ at' = "judge_ret"
                   /\ source' = name
                   /\ UNCHANGED <<template, rng, n, rep>>
              ELSE /\ source' = name
                   /\ template' = compiled.prog
                   /\ rng' = 0
                   /\ n' = FirstSize(task)
                   /\ rep' = 0
                   /\ at' = "prepare"
                   /\ UNCHANGED jres
    /\ UNCHANGED <<build, task, file, wres, exitCode>>
    /\ UNCHANGED trialVars

\* ---------------------------------------------------------- src lines 383-384
\* run_and_check(program.clone(), &mut rng, limit) up to its call of execute
Prepare ==
    /\ at = "prepare"
    /\ \E stream \in Streams(task, n) :
         \E r \in {prepare_test_case(task, n, template, stream)} :
            /\ prog' = r.prog
            /\ answer' = r.answer
            /\ drawn' = stream
    /\ rng' = rng + DrawsPerTrial(task, n)
    /\ at' = "execute"
    /\ UNCHANGED <<build, task, file, opened, source, template, n, rep, steps, first,
                   verdict, jres, wres, exitCode>>

\* ---------------------------------------------------------- src lines 338-348
\* one iteration of the loop of execute that makes a step
ExecStep ==
    /\ at = "execute"
    /\ ~prog.returned
    /\ ~(prog.runtime > TimeLimit(task))
    /\ \E r \in {execute_one(prog)} :
          \/ /\ r.overflow
             /\ build = "unknown"
             /\ build' = "checked"
             /\ at' = "abort"
             /\ exitCode' = 101
             /\ UNCHANGED <<prog, steps, verdict>>
          \/ /\ r.overflow => build' = "wrapping"
             /\ ~r.overflow => build' = build
             /\ prog' = r.prog
             /\ steps' = IF r.ok THEN steps + 1 ELSE steps
             /\ IF r.ok THEN /\ at' = "execute"
                             /\ UNCHANGED verdict
                ELSE /\ at' = "trial_end"
                     /\ verdict' = r.err
             /\ UNCHANGED exitCode
    /\ UNCHANGED <<task, file, opened, answer, drawn, first, jres, wres>>
    /\ UNCHANGED judgeVars

\* a faulty variant of ExecTimeout: the limit itself already counts as exceeded
ExecTimeout_at_limit ==
    /\ at = "execute"
    /\ ~prog.returned
    /\ prog.runtime >= TimeLimit(task)
    /\ verdict' = TimeLimitExceeded
    /\ at' = "trial_end"
    /\ UNCHANGED <<build, task, file, opened, prog, answer, drawn, steps, first, jres, wres, exitCode>>
    /\ UNCHANGED judgeVars

\* the iteration that finds runtime over the limit
ExecTimeout ==
    /\ at = "execute"
    /\ ~prog.returned
    /\ prog.runtime > TimeLimit(task)
    /\ verdict' = TimeLimitExceeded
    /\ at' = "trial_end"
    /\ UNCHANGED <<build, task, file, opened, prog, answer, drawn, steps, first, jres, wres, exitCode>>
    /\ UNCHANGED judgeVars

\* ---------------------------------------------------------- src lines 385-401
\* the iteration that finds `returned` set: execute returns Ok and
\* run_and_check judges the output queue
ExecReturned ==
    /\ at = "execute"
    /\ prog.returned
    /\ first' = IF has_output(prog) THEN <<Head(prog.output)>> ELSE <<>>
    /\ prog' = [prog EXCEPT !.output = IF has_output(prog) THEN Tail(@) ELSE @]
    /\ verdict' = check_output(prog.output, answer)
    /\ at' = "trial_end"
    /\ UNCHANGED <<build, task, file, opened, answer, drawn, steps, jres, wres, exitCode>>
    /\ UNCHANGED judgeVars

\* ---------------------------------------------------------- src lines 463-503
\* a faulty variant of TrialEnd: the trial ran on judge's program itself, not
\* on a clone of it, so what the trial did to it stays
TrialEnd_no_clone ==
    /\ at = "trial_end"
    /\ \E next \in {NextTrial(task, n, rep)} :
          IF verdict.tag = "Correct"
          THEN IF next.done
               THEN /\ jres' = [jres EXCEPT ![file] = Ok(Correct)]
                    /\ at' = "judge_ret"
                    /\ UNCHANGED <<n, rep>>
               ELSE /\ n' = next.n
                    /\ rep' = next.rep
                    /\ at' = "prepare"
                    /\ UNCHANGED jres
          ELSE /\ jres' = [jres EXCEPT ![file] = Ok(verdict)]
               /\ at' = "judge_ret"
               /\ UNCHANGED <<n, rep>>
    /\ template' = prog
    /\ prog' = DefaultProgram
    /\ answer' = 0
    /\ drawn' = <<>>
    /\ steps' = 0
    /\ first' = <<>>
    /\ verdict' = NoVerdict
    /\ UNCHANGED <<build, task, file, opened, source, rng, wres, exitCode>>

\* the match of judge on the verdict of a trial: continue with the next
\* trial, or return; the trial's program is dropped
TrialEnd ==
    /\ at = "trial_end"
    /\ \E next \in {NextTrial(task, n, rep)} :
          IF verdict.tag = "Correct"
          THEN IF next.done
               THEN /\ jres' = [jres EXCEPT ![file] = Ok(Correct)]
                    /\ at' = "judge_ret"
                    /\ UNCHANGED <<n, rep>>
               ELSE /\ n' = next.n
                    /\ rep' = next.rep
                    /\ at' = "prepare"
                    /\ UNCHANGED jres
          ELSE /\ jres' = [jres EXCEPT ![file] = Ok(verdict)]
               /\ at' = "judge_ret"
               /\ UNCHANGED <<n, rep>>
    /\ prog' = DefaultProgram
    /\ answer' = 0
    /\ drawn' = <<>>
    /\ steps' = 0
    /\ first' = <<>>
    /\ verdict' = NoVerdict
    /\ UNCHANGED <<build, task, file, opened, source, template, rng, wres, exitCode>>

\* ---------------------------------------------------------- src lines 511-521
\* a faulty variant of WorkMatch: the candidate is judged after any verdict of
\* the reference, Correct or not
WorkMatch_any_verdict ==
    /\ at = "judge_ret"
    /\ IF file = "ans"
       THEN IF jres.ans.ok
            THEN /\ file' = "ouf"
                 /\ at' = "judge"
                 /\ UNCHANGED wres
            ELSE /\ wres' = jres.ans
                 /\ at' = "main"
                 /\ UNCHANGED file
       ELSE /\ wres' = IF jres.ouf.ok THEN jres.ouf
                       ELSE Ok(OtherError(jres.ouf.val.message))
            /\ at' = "main"
            /\ UNCHANGED file
    /\ source' = "none"
    /\ template' = DefaultProgram
    /\ rng' = 0
    /\ n' = 0
    /\ rep' = 0
    /\ UNCHANGED <<build, task, opened, jres, exitCode>>
    /\ UNCHANGED trialVars

\* the match of work on the result of judge
WorkMatch ==
    /\ at = "judge_ret"
    /\ IF file = "ans"
       THEN IF jres.ans.ok /\ jres.ans.val.tag = "Correct"
            THEN /\ file' = "ouf"
                 /\ at' = "judge"
                 /\ UNCHANGED wres
            ELSE /\ wres' = IF jres.ans.ok
                            THEN Err(CheckerFail("jury's solution failed with verdict "
                                                     \o jres.ans.val.tag))
                            ELSE jres.ans
                 /\ at' = "main"
                 /\ UNCHANGED file
       ELSE /\ wres' = IF jres.ouf.ok THEN jres.ouf
                       ELSE Ok(OtherError(jres.ouf.val.message))
            /\ at' = "main"
            /\ UNCHANGED file
    /\ source' = "none"
    /\ template' = DefaultProgram
    /\ rng' = 0
    /\ n' = 0
    /\ rep' = 0
    /\ UNCHANGED <<build, task, opened, jres, exitCode>>
    /\ UNCHANGED trialVars

\* ---------------------------------------------------------- src lines 524-568
\* a faulty variant of ExitCodeOf: a CheckerFail leaves with the code of a
\* rejected submission
ExitCodeOf_fail_as_verdict(result) ==
    IF ~result.ok THEN 1
    ELSE IF result.val.tag = "Correct" THEN 0
    ELSE 1

ExitCodeOf(result) ==
    IF ~result.ok THEN 3
    ELSE CASE result.val.tag = "Correct" -> 0
           [] result.val.tag = "WrongAnswer" -> 1
           [] result.val.tag = "TimeLimitExceeded" -> 1
           [] result.val.tag = "RuntimeError" -> 1
           [] result.val.tag = "CompileError" -> 1
           [] result.val.tag = "Based" -> 1
           [] result.val.tag = "OtherError" -> 1

Main ==
    /\ at = "main"
    /\ exitCode' = ExitCodeOf(wres)
    /\ at' = "exit"
    /\ UNCHANGED <<build, task, file, opened, jres, wres>>
    /\ UNCHANGED judgeVars
    /\ UNCHANGED trialVars

Next ==
    \/ ReadTask
    \/ JudgeOpen
    \/ Prepare
    \/ ExecStep
    \/ ExecTimeout
    \/ ExecReturned
    \/ TrialEnd
    \/ WorkMatch
    \/ Main

Spec == Init /\ [][Next]_vars

\* ------------------------------------------------------------------ claims
\* the output queue as execute left it, before run_and_check took its head
Outputs == first \o prog.output

\* C1 (as amended): when run_and_check returns, the verdict is Correct exactly
\* when execution ended through Return and the output queue held exactly one
\* element, an Integer equal to the expected answer; the runtime was within
\* the limit before the Return step (the cost of the Return step itself may
\* carry it over).  After a successful execution the first output decides:
\* an empty queue is "print something", an Array first is "U PRINTERD AN
\* ENTRIE ARRAY???" whatever follows, an Integer first with more queued is
\* "too much stuff printed" even if it equals the answer, a single different
\* Integer is "git gud".  A failed execution returns the interpreter's
\* RuntimeError (at the line of the failing step) or TimeLimitExceeded, and
\* no output is taken from the queue.
C1_RunAndCheck ==
    at = "trial_end" =>
      /\ verdict = Correct <=> (prog.returned /\ Outputs = <<Integer(answer)>>)
      /\ prog.returned =>
            /\ prog.runtime - prog.costs[prog.pc] <= TimeLimit(task)
            /\ verdict.tag \in {"Correct", "WrongAnswer"}
            /\ Outputs = <<>> => verdict = WrongAnswer("print something")
            /\ (Outputs # <<>> /\ Outputs[1].kind = "Array")
                  => verdict = WrongAnswer("U PRINTERD AN ENTRIE ARRAY???")
            /\ (Len(Outputs) > 1 /\ Outputs[1].kind = "Integer")
                  => verdict = WrongAnswer("too much stuff printed")
            /\ (Len(Outputs) = 1 /\ Outputs[1].kind = "Integer"
                    /\ Outputs[1].int # answer)
                  => verdict = WrongAnswer("git gud")
      /\ ~prog.returned =>
            /\ verdict.tag \in {"RuntimeError", "TimeLimitExceeded"}
            /\ verdict.tag = "RuntimeError" => verdict.line = prog.pc
            /\ first = <<>>

\* C1 witness: a trial whose first output is an Integer equal to the expected
\* answer, with more output queued behind it, judged "too much stuff printed"
C1_Witness ==
    /\ at = "trial_end"
    /\ prog.returned
    /\ first = <<Integer(answer)>>
    /\ prog.output # <<>>
    /\ verdict = WrongAnswer("too much stuff printed")

\* C1 as stated: Correct exactly when execution ended through Return with the
\* runtime within the time limit and the queue held exactly the expected
\* Integer (the other parts as in C1_RunAndCheck)
C1_AsStated ==
    at = "trial_end" =>
      (verdict = Correct <=> /\ prog.returned
                             /\ prog.runtime <= TimeLimit(task)
                             /\ Outputs = <<Integer(answer)>>)

\* the battery of C2: the sizes n of a task in increasing order (0 stands for
\* the single loop of tasks 1 and 2), the number of trials for one size, and
\* the number of words the generator has given out when trial r (0-based) of
\* size m starts if every trial before it was run exactly once
C2_LastSize(t) == IF t \in {1, 2} THEN 0 ELSE MaxN
C2_Trials(t, m) ==
    CASE t = 1 -> 10 [] t = 2 -> 10 [] t = 3 -> 1 [] t = 4 -> (25 \div m) + 1
C2_Drawn(t, m, r) ==
    (IF m <= 1 THEN 0
     ELSE SumTo([i \in 1..(m - 1) |-> C2_Trials(t, i) * DrawsPerTrial(t, i)], m - 1))
    + r * DrawsPerTrial(t, m)
C2_InBattery ==
    at \in {"prepare", "execute", "trial_end"} =>
      /\ task \in 1..4
      /\ n \in (IF task \in {1, 2} THEN 0 ELSE 1)..C2_LastSize(task)
      /\ rep \in 0..(C2_Trials(task, n) - 1)
      /\ rng = C2_Drawn(task, n, IF at = "prepare" THEN rep ELSE rep + 1)
C2_Returned ==
    (at = "judge_ret" /\ jres[file] = Ok(Correct)) =>
      rng = C2_Drawn(task, C2_LastSize(task), C2_Trials(task, C2_LastSize(task)))
C2_Step ==
    /\ C2_InBattery /\ C2_InBattery' /\ C2_Returned /\ C2_Returned'
    /\ (at = "judge" /\ at' = "prepare") =>
          /\ rng' = 0 /\ rep' = 0
          /\ n' = IF task \in {1, 2} THEN 0 ELSE 1
    /\ at = "trial_end" =>
          IF verdict # Correct
          THEN at' = "judge_ret" /\ jres' = [jres EXCEPT ![file] = Ok(verdict)]
               /\ rng' = rng
          ELSE IF n = C2_LastSize(task) /\ rep = C2_Trials(task, n) - 1
          THEN at' = "judge_ret" /\ jres' = [jres EXCEPT ![file] = Ok(Correct)]
               /\ rng' = rng
          ELSE /\ at' = "prepare" /\ jres' = jres /\ rng' = rng
               /\ <<n', rep'>> = IF rep + 1 < C2_Trials(task, n) THEN <<n, rep + 1>>
                                 ELSE <<n + 1, 0>>
    /\ at = "judge_ret" => at' \notin {"prepare", "execute", "trial_end"}
    /\ \A m \in 1..50 :
          /\ Repeats(4, m) = (25 \div m) + 1
          /\ m >= 26 => Repeats(4, m) = 1
          /\ Repeats(3, m) = 1
    /\ Repeats(4, 1) = 26 /\ Repeats(1, 0) = 10 /\ Repeats(2, 0) = 10

\* C2: for a compilable program judge runs the trials of the task in a fixed
\* order (tasks 1 and 2: 10 trials; task 3: one trial per size n, n
\* increasing; task 4: (25 div n) + 1 trials per size n, n increasing, which
\* is 26 for n = 1 and 1 for n >= 26), every trial drawing from the one
\* generator; a trial whose verdict is not Correct makes judge return that
\* verdict at once, with no further trial and no further draw; judge returns
\* Correct only after the last trial of the battery, all of them Correct.
C2_Battery == [][C2_Step]_vars

\* C2 witness: the 26th trial of size 1 of task 4 ended Correct
C2_Witness ==
    /\ at = "trial_end" /\ task = 4 /\ n = 1 /\ rep = 25 /\ verdict = Correct

\* C3: the reference source is opened and judged first; the candidate source
\* is opened (and so compiled and judged) only after the reference was judged
\* Correct, on the task id the reference was judged on, and then a verdict of
\* the candidate is the result work reports; if the reference got any other
\* verdict (Based and CompileError included) the candidate is never opened,
\* work reports CheckerFail and the exit code is 3.
C3_ReferenceFirst ==
    /\ opened \in {<<>>, <<"ans">>, <<"ans", "ouf">>}
    /\ file = "ouf" => jres.ans = Ok(Correct)
    /\ Len(opened) = 2 => (jres.ans = Ok(Correct) /\ task \in 1..4)
    /\ (jres.ouf.set /\ jres.ouf.ok /\ wres.set) => wres = jres.ouf
    /\ (jres.ans.set /\ jres.ans.ok /\ jres.ans.val # Correct) =>
          /\ opened = <<"ans">>
          /\ jres.ouf = NoResult
          /\ wres.set => (~wres.ok /\ wres.val.tag = "CheckerFail")
          /\ at = "exit" => exitCode = 3

\* C3 witness: the checker exited with code 3 after the reference was rejected
\* as Based, the candidate never opened
C3_Witness ==
    /\ at = "exit" /\ exitCode = 3 /\ jres.ans = Ok(Based) /\ opened = <<"ans">>

\* the checker-internal problems of C4, as the results of work and judge show
\* them: the task-id file could not be read or parsed (work returned before
\* any call of judge), judge of the reference returned an Err (its file could
\* not be read, or the task id is unknown), the reference got a verdict other
\* than Correct, judge of the candidate returned an Err (its file could not
\* be read)
C4_TaskFileProblem == ~jres.ans.set
C4_ReferenceProblem == jres.ans.set /\ (~jres.ans.ok \/ jres.ans.val # Correct)
C4_CandidateProblem == jres.ouf.set /\ ~jres.ouf.ok
C4_ExitCodes ==
    /\ exitCode \in {0, 1, 3}
    /\ exitCode = 3 <=> (~wres.ok /\ wres.val.tag = "CheckerFail")
    /\ exitCode = 0 <=> wres = Ok(Correct)
    /\ exitCode = 1 =>
          /\ wres.ok
          /\ wres.val.tag \in {"WrongAnswer", "TimeLimitExceeded", "RuntimeError",
                                "CompileError", "Based", "OtherError"}

\* C4 (as amended): a task-id file that cannot be read or parsed, a reference
\* file that cannot be read, a task id outside 1..4 and a reference that is
\* not judged Correct each end in CheckerFail and exit code 3; a candidate
\* file that cannot be read (after a Correct reference) ends in the verdict
\* OtherError carrying the failure's message, and exit code 1.  Exit code 0
\* is produced only for Correct, exit code 1 only for WrongAnswer,
\* TimeLimitExceeded, RuntimeError, CompileError, Based and OtherError.
C4_CheckerFail ==
    at = "exit" =>
      /\ C4_ExitCodes
      /\ (C4_TaskFileProblem \/ C4_ReferenceProblem) => exitCode = 3
      /\ (jres.ans.set /\ task \notin 1..4) => exitCode = 3
      /\ C4_CandidateProblem =>
            /\ wres = Ok(OtherError(jres.ouf.val.message))
            /\ exitCode = 1

\* C4 witness: the checker exited with code 1 and the verdict OtherError
\* after the candidate file could not be read
C4_Witness ==
    /\ at = "exit" /\ exitCode = 1 /\ wres.val.tag = "OtherError"
    /\ jres.ans = Ok(Correct) /\ jres.ouf = Err(CheckerFail("io error"))

\* C4 as stated: every checker-internal problem, an I/O failure on the
\* candidate file included, ends in CheckerFail and exit code 3; exit code 0
\* only for Correct and exit code 1 only for the six other verdicts
C4_AsStated ==
    at = "exit" =>
      /\ C4_ExitCodes
      /\ (C4_TaskFileProblem \/ C4_ReferenceProblem \/ C4_CandidateProblem) =>
            (exitCode = 3 /\ ~wres.ok /\ wres.val.tag = "CheckerFail")
      /\ (jres.ans.set /\ task \notin 1..4) => exitCode = 3

\* the program a trial of task t and size m starts from, given the compiled
\* program c: nothing of c but its instructions and costs, and the inputs of
\* the task on the input queue
C5_Inputs(t, m, input) ==
    CASE t = 1 -> Len(input) = 2 /\ input[1].kind = "Integer" /\ input[2].kind = "Integer"
      [] t = 2 -> Len(input) = 1 /\ input[1].kind = "Integer"
      [] t = 3 -> /\ Len(input) = 2 /\ input[1] = Integer(m)
                  /\ input[2].kind = "Array" /\ Len(input[2].arr) = m
      [] t = 4 -> /\ Len(input) = 3 /\ input[1] = Integer(m)
                  /\ input[2].kind = "Array" /\ Len(input[2].arr) = m
                  /\ input[3].kind = "Integer" /\ input[3].int \in 1..m
C5_Fresh(p, c, t, m) ==
    /\ p.instructions = c.instructions /\ p.costs = c.costs
    /\ p.pc = 0 /\ p.runtime = 0 /\ ~p.returned
    /\ p.variables = <<>> /\ p.output = <<>>
    /\ C5_Inputs(t, m, p.input)
C5_Step ==
    /\ at = "prepare" =>
          /\ at' = "execute"
          /\ C5_Fresh(prog', template, task, n)
          /\ rng' = rng + DrawsPerTrial(task, n)
    /\ at \in {"prepare", "execute", "trial_end"} =>
          /\ template' = template
          /\ at # "prepare" => rng' = rng
          /\ template.pc = 0 /\ template.runtime = 0 /\ ~template.returned
          /\ template.variables = <<>> /\ template.input = <<>>
          /\ template.output = <<>>

\* C5: every trial starts from a copy of the compiled program with pc = 0,
\* runtime = 0, returned = false, no variable bound, an empty output queue
\* and an input queue holding exactly the inputs its own prepare step pushed;
\* no step of a trial changes the compiled program (instructions and costs
\* included); between the trials of one battery only the generator advances,
\* by the draws of each prepare step.
C5_Isolation == [][C5_Step]_vars

\* C5 witness: a trial after the first has just been prepared
C5_Witness ==
    /\ at = "execute" /\ rep >= 1 /\ prog.pc = 0 /\ prog.runtime = 0
    /\ prog.input # <<>> /\ prog.instructions = template.instructions

\* the lines (1-based) of a source that contain "based", that do not parse,
\* and the first line that does either (0 if none)
C6_BasedLines(lines) == {j \in 1..Len(lines) : ContainsBased(lines[j])}
C6_BadLines(lines) == {j \in 1..Len(lines) : ~Instruction_try_from(lines[j]).ok}
C6_First(S) == IF S = {} THEN 0 ELSE CHOOSE j \in S : \A i \in S : j <= i
C6_Verdict(lines, based, bad, stop, result) ==
    /\ stop = 0 =>
          (result.set /\ result.ok => result.val.tag \notin {"Based", "CompileError"})
    /\ stop # 0 =>
          result = Ok(IF stop \in based THEN Based
                      ELSE CompileError(stop - 1,
                                        Instruction_try_from(lines[stop]).message))
    /\ based # {} =>
          (result = Ok(Based) <=> \A i \in bad : i >= C6_First(based))
C6_Holds(lines, result) ==
    LET based == C6_BasedLines(lines)
        bad == C6_BadLines(lines)
    IN C6_Verdict(lines, based, bad, C6_First(based \cup bad), result)

\* C6: compile takes the lines in order and stops at the first line that
\* contains "based" (in any letter case) or does not parse; it returns Based
\* if that line contains "based" (also when the line would not parse, and
\* whatever follows it), otherwise CompileError with the 0-based index of
\* that line; so a source with a "based" line is rejected as Based exactly
\* when every line before the first such line parses.
C6_Compile ==
    (source # "none" /\ (at = "judge_ret" \/ (at = "prepare" /\ rng = 0))) =>
      C6_Holds(SourceLines(source), jres[file])

\* C6 witness: a source whose unparseable line precedes its "based" line was
\* rejected with CompileError at the unparseable line
C6_Witness ==
    /\ at = "judge_ret" /\ source = "pxq"
    /\ jres[file].ok /\ jres[file].val.tag = "CompileError" /\ jres[file].val.line = 1

C7_Step ==
    at = "execute" =>
      /\ verdict' = TimeLimitExceeded <=>
            (~prog.returned /\ prog.runtime > TimeLimit(task))
      /\ (~prog.returned /\ prog.runtime > TimeLimit(task)) =>
            (at' = "trial_end" /\ prog' = prog)
      /\ prog.returned =>
            (at' = "trial_end" /\ verdict'.tag \in {"Correct", "WrongAnswer"})
      /\ (~prog.returned /\ prog.runtime <= TimeLimit(task) /\ at' = "trial_end") =>
            (verdict'.tag = "RuntimeError" /\ prog'.runtime >= prog.runtime)

\* C7 (as amended): a trial ends with TimeLimitExceeded exactly when a further
\* step is due (the program has not returned and its last step did not fail)
\* and the accumulated runtime exceeds the task's time limit; no step is
\* made then.  A step that executes Return ends the execution successfully,
\* and a step whose instruction fails ends it with its RuntimeError, also
\* when the cost of that step carried the runtime over the limit.
C7_TimeLimit == [][C7_Step]_vars

\* C7 witness: a trial ended with a RuntimeError of a step whose cost had
\* carried the runtime over the limit
C7_Witness ==
    /\ at = "trial_end" /\ verdict.tag = "RuntimeError"
    /\ prog.runtime > TimeLimit(task)
    /\ prog.runtime - prog.costs[prog.pc + 1] <= TimeLimit(task)

\* C7 as stated: whenever the runtime exceeds the time limit after the cost
\* of the most recent step was charged, the trial ends with
\* TimeLimitExceeded, whatever the step was
C7_AsStated ==
    (at = "trial_end" /\ prog.runtime > TimeLimit(task)) => verdict = TimeLimitExceeded

C8_NotALine(p) == RuntimeError(Len(p.instructions), "that's not even a line")
C8_AllNop(p) ==
    \A i \in 1..Len(p.instructions) : p.instructions[i] = Nop /\ p.costs[i] = 5
C8_Step ==
    (at = "execute" /\ at' # "abort") =>
      /\ (prog'.returned /\ ~prog.returned) =>
            /\ prog.pc < Len(prog.instructions)
            /\ prog.instructions[prog.pc + 1] = Return
      /\ (at' = "trial_end" /\ verdict'.tag \in {"Correct", "WrongAnswer"}) =>
            (prog.returned /\ prog.instructions[prog.pc] = Return)
      /\ (~prog.returned /\ prog.runtime <= TimeLimit(task)
             /\ prog.pc = Len(prog.instructions)) =>
            /\ at' = "trial_end"
            /\ verdict' = C8_NotALine(prog)
            /\ prog'.runtime = prog.runtime
      /\ (C8_AllNop(prog) /\ 5 * Len(prog.instructions) <= TimeLimit(task)
             /\ at' = "trial_end") =>
            /\ verdict' = C8_NotALine(prog)
            /\ prog'.runtime = 5 * Len(prog.instructions)

\* C8: execute returns Ok only after a Return instruction was executed (the
\* returned flag is set by a Return step only); when the program counter is
\* at instructions.length with the runtime within the limit the step yields
\* RuntimeError(instructions.length, "that's not even a line") and charges
\* nothing; a program of L Nop lines of cost 5 with 5 * L <= time limit ends
\* with that RuntimeError, after a runtime of 5 * L, and not with
\* TimeLimitExceeded.
C8_NoFallThrough == [][C8_Step]_vars

\* C8 witness: the source of LimitSmall div 5 empty lines ran off its end
C8_Witness ==
    /\ at = "trial_end" /\ source = "nops_full"
    /\ Len(prog.instructions) = LimitSmall \div 5
    /\ prog.runtime = 5 * Len(prog.instructions)
    /\ verdict = C8_NotALine(prog)

\* C9 (as amended): the 8-line program of the specification ends through
\* Return with exactly one output on every input a that a trial of task 2
\* draws, and the output is -|a| (Compare skips the line after it unless
\* 0 > a, so a negative a is printed as it is and any other a is negated):
\* the trial is judged Correct exactly when a = 0 and WrongAnswer("git gud")
\* otherwise, and the program gets the verdict of its first trial with
\* a # 0, or Correct if there is none.
C9_AbsProgram ==
    (source = "abs" /\ task = 2) =>
      /\ Len(template.instructions) = 8
      /\ (at = "execute" /\ prog.runtime = 0) =>
            (prog.input # <<>> /\ answer = Abs(prog.input[1].int))
      /\ at = "trial_end" =>
            /\ prog.returned /\ prog.pc = 8
            /\ Outputs = <<Integer(0 - answer)>>
            /\ verdict = IF answer = 0 THEN Correct ELSE WrongAnswer("git gud")
      /\ at = "judge_ret" => jres[file] \in {Ok(Correct), Ok(WrongAnswer("git gud"))}

\* C9 witness: a trial of the program on the input -2 ended with the single
\* output -2 and the verdict WrongAnswer("git gud")
C9_Witness ==
    /\ source = "abs" /\ task = 2 /\ at = "trial_end"
    /\ answer = 2 /\ first = <<Integer(-2)>> /\ prog.output = <<>>
    /\ prog.variables["a"] = Integer(-2)
    /\ verdict = WrongAnswer("git gud")

\* C9 as stated: the 8-line program is accepted on task 2: every trial ends
\* through Return with exactly one output, |a|, and is judged Correct
C9_AsStated ==
    (source = "abs" /\ task = 2 /\ at = "trial_end") =>
      /\ prog.returned
      /\ Outputs = <<Integer(answer)>>
      /\ verdict = Correct

\* C10: the 5-line sum program of the specification is judged Correct on task
\* 1: on all inputs a, b the trial draws, it returns after exactly 5 steps
\* (each line once) with the single output a + b.  The variant with `yeet b`
\* for `yeet a` outputs b and is judged WrongAnswer on every trial with
\* a # 0, and Correct on a trial exactly when a = 0.
C10_SumJudged ==
    (source \in {"sum", "sum_b"} /\ task = 1) =>
      /\ Len(template.instructions) = 5
      /\ (at = "execute" /\ prog.runtime = 0) =>
            (Len(prog.input) = 2 /\ answer = prog.input[1].int + prog.input[2].int)
      /\ at = "trial_end" =>
            /\ prog.returned /\ prog.pc = 5
            /\ prog.runtime = SumTo(prog.costs, 5)
            /\ prog.variables["a"] = Integer(answer)
            /\ source = "sum" => (verdict = Correct /\ Outputs = <<Integer(answer)>>)
            /\ source = "sum_b" =>
                  /\ Outputs = <<prog.variables["b"]>>
                  /\ verdict = IF answer - prog.variables["b"].int = 0
                                THEN Correct ELSE WrongAnswer("git gud")
      /\ (at = "judge_ret" /\ source = "sum") => jres[file] = Ok(Correct)

\* C10 witness: a trial of the `yeet b` variant with a = 0 and b # 0 ended
\* Correct
C10_Witness ==
    /\ source = "sum_b" /\ task = 1 /\ at = "trial_end"
    /\ verdict = Correct /\ first = <<Integer(answer)>> /\ answer # 0

\* ------------------------------------------------------------------- C11
\* the start of a trial: prepare_test_case has pushed the inputs and no line
\* has been fetched yet
C11_TrialStart == at = "execute" /\ prog.runtime = 0 /\ prog.output = <<>>
C11_Integers(input) == \A i \in 1..Len(input) : i # 2 => input[i].kind = "Integer"
\* x is the k-th largest element of arr
C11_KthLargest(arr, k, x) ==
    /\ \E i \in 1..Len(arr) : arr[i] = x
    /\ Cardinality({i \in 1..Len(arr) : arr[i] > x}) < k
    /\ k <= Cardinality({i \in 1..Len(arr) : arr[i] >= x})
\* the array pushed holds the values drawn for it, in the order drawn
C11_AsDrawn(arr, offset) ==
    arr = [i \in 1..n |-> next_signed(drawn[offset + i], SIGNED_BITS)]
\* C11: the expected answer of a trial is the mathematically correct answer
\* for the inputs pushed, which are queued in this order: task 1 pushes a, b
\* and expects a + b; task 2 pushes a and expects |a|; task 3 pushes n and an
\* array of length n and expects its maximum; task 4 pushes n, an array of
\* length n and k with 1 <= k <= n and expects the k-th largest element; the
\* array pushed is the array as drawn, not a sorted copy
C11_Answer ==
    C11_TrialStart =>
        /\ Len(prog.input) = (CASE task = 1 -> 2 [] task = 2 -> 1 [] task = 3 -> 2
                                [] task = 4 -> 3)
        /\ C11_Integers(prog.input)
        /\ task = 1 => /\ prog.input[2].kind = "Integer"
                       /\ answer = prog.input[1].int + prog.input[2].int
        /\ task = 2 => /\ answer >= 0
                       /\ answer \in {prog.input[1].int, 0 - prog.input[1].int}
        /\ task \in {3, 4} => /\ prog.input[1].int = n
                              /\ prog.input[2].kind = "Array"
                              /\ Len(prog.input[2].arr) = n
        /\ task = 3 => /\ C11_KthLargest(prog.input[2].arr, 1, answer)
                       /\ C11_AsDrawn(prog.input[2].arr, 0)
        /\ task = 4 => /\ prog.input[3].int \in 1..n
                       /\ C11_KthLargest(prog.input[2].arr, prog.input[3].int, answer)
                       /\ C11_AsDrawn(prog.input[2].arr, 1)
\* a task 4 trial starts on an array drawn in descending order, with k = 1
C11_Witness ==
    /\ C11_TrialStart
    /\ task = 4
    /\ n = MaxN
    /\ prog.input[3].int = 1
    /\ prog.input[2].arr[1] > prog.input[2].arr[2]
    /\ answer = prog.input[2].arr[1]

\* ------------------------------------------------------------------- C12
C12_Task4Start == C11_TrialStart /\ task = 4
\* C12 (amended): in every task 4 trial the unsigned draw for k comes first
\* and the n array draws follow in index order: the first word drawn gives
\* k = (word mod n) + 1 and the (i+1)-th word drawn becomes array[i-1]
C12_DrawOrder ==
    C12_Task4Start =>
        /\ Len(drawn) = n + 1
        /\ prog.input[3].int = (drawn[1] % n) + 1
        /\ \A i \in 1..n :
              prog.input[2].arr[i] = next_signed(drawn[i + 1], SIGNED_BITS)
\* a task 4 trial on the largest size whose first array element is negative
\* and whose k is 2
C12_Witness ==
    /\ C12_Task4Start
    /\ n = MaxN
    /\ prog.input[3].int = 2
    /\ prog.input[2].arr[1] < 0
\* C12 as stated: in every task 4 trial the n array draws come first, in
\* index order, and the unsigned draw for k comes after them: the first word
\* drawn becomes array[0] and the (n+1)-th word drawn gives k
C12_AsStated ==
    C12_Task4Start =>
        /\ Len(drawn) = n + 1
        /\ \A i \in 1..n :
              prog.input[2].arr[i] = next_signed(drawn[i], SIGNED_BITS)
        /\ prog.input[3].int = (drawn[n + 1] % n) + 1

\* ------------------------------------------------------------------- C13
\* execute is about to call execute_one, and the line at pc exists
C13_Stepping == at = "execute" /\ ~prog.returned /\ ~(prog.runtime > TimeLimit(task))
C13_Fetching == C13_Stepping /\ prog.pc < Len(prog.instructions)
C13_Cur == prog.instructions[prog.pc + 1]
\* the value an operand that can be read has in environment vs
C13_Read(vs, operand) ==
    CASE operand.kind = "Constant" -> operand.value
      [] operand.kind = "Variable" -> vs[operand.name].int
      [] operand.kind = "ArrayConstIndex" -> vs[operand.name].arr[operand.index + 1]
      [] operand.kind = "ArrayVarIndex" ->
            vs[operand.name].arr[vs[operand.index_name].int + 1]
C13_Step ==
    (C13_Fetching /\ at' = "execute") =>
        /\ C13_Cur.ins = "Compare" =>
              prog' = [prog EXCEPT
                         !.pc = IF C13_Read(prog.variables, C13_Cur.dst)
                                     > C13_Read(prog.variables, C13_Cur.src)
                                THEN prog.pc + 1 ELSE prog.pc + 2,
                         !.runtime = prog'.runtime]
        /\ C13_Cur.ins \notin {"Compare", "Jump"} => prog'.pc = prog.pc + 1
\* C13: a Compare at line i whose operands both evaluate makes the next line
\* fetched i+1 if a > b (signed) and i+2 if a <= b, and changes no variable
\* and no queue; every instruction other than Compare and Jump that completes
\* without error, Return included, sets pc to exactly i+1
C13_CompareSkip == [][C13_Step]_vars
\* a program without Jump is at its fifth line after three lines were
\* fetched: its Compare on two equal integers skipped the fourth line
C13_Witness ==
    /\ source = "vibe check n ratios a"
    /\ at = "execute"
    /\ prog.pc = 4
    /\ prog.runtime = prog.costs[1] + prog.costs[2] + prog.costs[3]
    /\ prog.variables["n"].kind = "Integer"
    /\ prog.variables["a"].kind = "Integer"
    /\ prog.variables["n"].int = prog.variables["a"].int

\* ------------------------------------------------------------------- C14
\* the step about to be made fails with this RuntimeError and nothing else
\* happens: the process goes on to return the verdict
C14_FailsWith(message) ==
    /\ at' = "trial_end"
    /\ verdict' = RuntimeError(prog.pc, message)
    /\ exitCode' = exitCode
C14_Step ==
    /\ (C13_Fetching /\ C13_Cur.ins = "Jump" /\ C13_Cur.dst.kind = "Constant") =>
          /\ at' = "execute"
          /\ prog' = [prog EXCEPT !.pc = (C13_Cur.dst.value - 1) % Pow2(W),
                                  !.runtime = prog'.runtime]
    /\ (C13_Fetching /\ C13_Cur.ins = "Jump" /\ C13_Cur.dst.kind # "Constant") =>
          C14_FailsWith("simp operand must be a constant")
    /\ (C13_Stepping /\ prog.pc >= Len(prog.instructions)) =>
          C14_FailsWith("that's not even a line")
\* C14 as stated: Jump(Constant(k)) makes the next line fetched exactly k-1
\* (as an unsigned index), whatever the current line, and changes nothing
\* else but runtime; when k-1 is not a valid index (k beyond the length, k = 0
\* or negative) the very next step fails cleanly with RuntimeError "that's not
\* even a line" and never aborts the checker; a Jump whose operand is not a
\* Constant is a RuntimeError at its line
C14_AsStated == [][C14_Step]_vars
\* the step after `simp for 0` has aborted the checker: pc is the greatest
\* usize and no verdict was returned
C14_Witness ==
    /\ source = "jump0"
    /\ at = "abort"
    /\ prog.pc = USIZE_MAX
    /\ verdict = NoVerdict
    /\ exitCode = 101

\* ------------------------------------------------------------------- C15
C15_Length == Len(prog.instructions)
C15_Step ==
    /\ (C13_Fetching /\ at' = "execute") =>
          /\ C13_Cur.ins \notin {"Compare", "Jump"} => prog'.pc <= C15_Length
          /\ C13_Cur.ins = "Compare" => prog'.pc <= C15_Length + 1
    /\ (C13_Stepping /\ prog.pc >= C15_Length) =>
          /\ prog' = prog
          /\ at' \in {"trial_end", "abort"}
\* C15 (amended): at every fetch boundary pc is an unsigned index; it is 0
\* at the start of a trial and at most instructions.length after every step
\* other than Compare and Jump; a Compare leaves it at most
\* instructions.length + 1 and a Jump anywhere; a step at
\* pc >= instructions.length fetches no instruction and changes nothing in
\* the program
C15_PcRange ==
    /\ [](at = "execute" =>
            /\ prog.pc \in 0..USIZE_MAX
            /\ prog.runtime = 0 => prog.pc = 0)
    /\ [][C15_Step]_vars
\* a fetch boundary beyond the length: the Compare on the last line of a
\* program has skipped
C15_Witness ==
    /\ source = "cmp_last"
    /\ at = "execute"
    /\ prog.pc = C15_Length + 1
\* C15 as stated: at every fetch boundary 0 <= pc <= instructions.length
C15_AsStated ==
    at = "execute" => (0 <= prog.pc /\ prog.pc <= C15_Length)

\* ------------------------------------------------------------------- C16
\* the program compiled from the source has one instruction and one cost per
\* line, the cost of a line being its length plus 5
C16_Compiled(p, lines) ==
    /\ Len(p.instructions) = Len(lines)
    /\ p.costs = [i \in 1..Len(lines) |-> Len(lines[i]) + 5]
C16_Charge(runtime, cost) ==
    IF runtime + cost > USIZE_MAX THEN USIZE_MAX ELSE runtime + cost
C16_Step ==
    /\ (at = "judge" /\ at' = "prepare") => C16_Compiled(template', SourceLines(source'))
    /\ (at = "prepare" /\ at' = "execute") =>
          /\ prog'.instructions = template.instructions
          /\ prog'.costs = template.costs
          /\ prog'.runtime = 0
    /\ (at = "execute" /\ at' # "abort") =>
          /\ prog'.costs = prog.costs
          /\ prog'.runtime =
                IF C13_Fetching THEN C16_Charge(prog.runtime, prog.costs[prog.pc + 1])
                ELSE prog.runtime
          /\ prog'.runtime >= prog.runtime
          /\ prog'.runtime <= USIZE_MAX
\* C16: compile produces instructions and costs of equal length, one entry
\* per source line, with costs[i] = length of line i + 5; runtime is 0 when a
\* trial starts; a step whose fetch succeeds adds exactly costs[pc],
\* saturating, also when the instruction then fails, and a step whose fetch
\* is out of range adds nothing; so runtime is the saturating sum of the
\* costs of the lines fetched, never decreases and never exceeds the
\* greatest usize
C16_CostAccounting == [][C16_Step]_vars
\* the third line of a program was fetched and failed: the costs of the
\* three lines fetched are charged
C16_Witness ==
    /\ source = "yoink 3"
    /\ at = "trial_end"
    /\ verdict = RuntimeError(2, "input operand must be an identifier")
    /\ prog.runtime = (Len("yoink n") + 5) + (Len("yoink a") + 5) + (Len("yoink 3") + 5)

\* ------------------------------------------------------------------- C17
\* the operand evaluates without error as a read in environment vs
C17_Readable(vs, operand) ==
    CASE operand.kind = "Constant" -> TRUE
      [] operand.kind = "Variable" ->
            operand.name \in DOMAIN vs /\ vs[operand.name].kind = "Integer"
      [] operand.kind = "ArrayConstIndex" ->
            /\ operand.name \in DOMAIN vs
            /\ vs[operand.name].kind = "Array"
            /\ operand.index < Len(vs[operand.name].arr)
      [] operand.kind = "ArrayVarIndex" ->
            /\ operand.index_name \in DOMAIN vs
            /\ vs[operand.index_name].kind = "Integer"
            /\ operand.name \in DOMAIN vs
            /\ vs[operand.name].kind = "Array"
            /\ vs[operand.index_name].int % Pow2(W) < Len(vs[operand.name].arr)
      [] OTHER -> FALSE
\* the names an operand reads: as a value, and as the place of a write
C17_ValueNames(operand) ==
    CASE operand.kind = "Variable" -> {operand.name}
      [] operand.kind = "ArrayConstIndex" -> {operand.name}
      [] operand.kind = "ArrayVarIndex" -> {operand.name, operand.index_name}
      [] OTHER -> {}
C17_PlaceNames(operand) ==
    IF operand.kind = "Variable" THEN {} ELSE C17_ValueNames(operand)
\* the names the instruction reads
C17_Reads(cur) ==
    CASE cur.ins \in {"Assign", "Add", "Sub"} ->
            C17_PlaceNames(cur.dst) \cup C17_ValueNames(cur.src)
      [] cur.ins = "Compare" -> C17_ValueNames(cur.dst) \cup C17_ValueNames(cur.src)
      [] cur.ins = "Output" -> C17_ValueNames(cur.src)
      [] OTHER -> {}
\* the instruction writes to a bare name that is not bound, from a source
\* that can be read
C17_Creates(cur) ==
    /\ cur.ins \in {"Assign", "Add", "Sub"}
    /\ cur.dst.kind = "Variable"
    /\ cur.dst.name \notin DOMAIN prog.variables
    /\ C17_Readable(prog.variables, cur.src)
C17_Created(cur) ==
    LET v == C13_Read(prog.variables, cur.src)
    IN Integer(WrapI64(CASE cur.ins = "Assign" -> v
                         [] cur.ins = "Add" -> 0 + v
                         [] cur.ins = "Sub" -> 0 - v))
C17_Step ==
    /\ (at = "prepare" /\ at' = "execute") => prog'.variables = <<>>
    /\ (C13_Fetching /\ C17_Creates(C13_Cur)) =>
          /\ at' = "execute"
          /\ prog'.variables =
                [x \in DOMAIN prog.variables \cup {C13_Cur.dst.name} |->
                    IF x = C13_Cur.dst.name THEN C17_Created(C13_Cur)
                    ELSE prog.variables[x]]
    /\ (C13_Fetching /\ C17_Reads(C13_Cur) \ DOMAIN prog.variables # {}) =>
          /\ at' = "trial_end"
          /\ verdict'.tag = "RuntimeError"
          /\ prog'.variables = prog.variables
    /\ (at = "execute" /\ DOMAIN prog'.variables # DOMAIN prog.variables) =>
          /\ C13_Fetching
          /\ C13_Cur.ins = "Input" \/ C17_Creates(C13_Cur)
          /\ DOMAIN prog'.variables = DOMAIN prog.variables \cup {C13_Cur.dst.name}
\* C17 as stated: a step of Assign, Add or Sub whose destination is a bare
\* name that is not bound and whose source evaluates succeeds and binds the
\* name to the Integer src, 0 + src or 0 - src; every read of an unbound name
\* (source operand, Compare operand, index variable, array name, operand of
\* Output) is a RuntimeError that creates nothing; the environment is empty
\* when a trial starts and a name is created only by Input or by such a write
C17_AsStated == [][C17_Step]_vars
\* the step that subtracts the least i64 from the unbound name u has aborted
\* the checker
C17_Witness ==
    /\ source = "rip this u fell off by " \o ToString(I64_MIN)
    /\ at = "abort"
    /\ prog.pc = 2
    /\ "u" \notin DOMAIN prog.variables

\* ------------------------------------------------------------------- C18
\* variable v of the environment after a step has the kind, and the length
\* if it is an Array, that variable u had before it
C18_SameShape(u, v) ==
    /\ v.kind = u.kind
    /\ u.kind = "Array" => Len(v.arr) = Len(u.arr)
C18_Step ==
    /\ (C13_Fetching /\ at' = "execute" /\ C13_Cur.ins # "Input") =>
          /\ DOMAIN prog.variables \subseteq DOMAIN prog'.variables
          /\ prog'.input = prog.input
          /\ \A x \in DOMAIN prog'.variables :
                IF x \in DOMAIN prog.variables
                THEN C18_SameShape(prog.variables[x], prog'.variables[x])
                ELSE prog'.variables[x].kind = "Integer"
    /\ (C13_Fetching /\ at' = "execute" /\ C13_Cur.ins = "Input") =>
          /\ prog.input # <<>>
          /\ prog'.input = Tail(prog.input)
          /\ prog'.variables =
                [x \in DOMAIN prog.variables \cup {C13_Cur.dst.name} |->
                    IF x = C13_Cur.dst.name THEN Head(prog.input)
                    ELSE prog.variables[x]]
    /\ (C13_Stepping /\ at' # "execute") => prog'.variables = prog.variables
    /\ (/\ C13_Fetching
        /\ C13_Cur.ins \in {"Assign", "Add", "Sub"}
        /\ C13_Cur.dst.kind = "Variable"
        /\ C13_Cur.dst.name \in DOMAIN prog.variables
        /\ prog.variables[C13_Cur.dst.name].kind = "Array") =>
          /\ at' = "trial_end"
          /\ verdict'.tag = "RuntimeError"
\* C18: Input is the only instruction that binds a name to an Array or
\* changes the kind of a bound name: it pops the front of the input queue
\* and stores it as it is under the name, replacing what was there; every
\* other step leaves every bound name its kind and every Array its length,
\* and binds new names to Integers only; Assign, Add and Sub on a bare name
\* bound to an Array fail with a RuntimeError and do not rebind it
C18_KindInvariant == [][C18_Step]_vars
\* a third Input has replaced the Array bound to a by the Integer k of
\* task 4
C18_Witness ==
    /\ source = "yoink a"
    /\ task = 4
    /\ at = "execute"
    /\ prog.pc = 3
    /\ prog.input = <<>>
    /\ prog.variables["a"] = Integer((drawn[1] % n) + 1)

\* ------------------------------------------------------------------- C19
\* the exact integer x reduced modulo 2^W into the signed range
C19_Wrapped(x) == ((x + Pow2(W - 1)) % Pow2(W)) - Pow2(W - 1)
\* the value the destination of the instruction holds before the step, 0 for
\* a bare name that is not bound
C19_Before(cur) ==
    IF cur.dst.kind = "Variable" /\ cur.dst.name \notin DOMAIN prog.variables THEN 0
    ELSE C13_Read(prog.variables, cur.dst)
C19_Arithmetic(cur) ==
    /\ cur.ins \in {"Add", "Sub"}
    /\ cur.dst.kind # "Constant"
    /\ C17_Readable(prog.variables, cur.src)
    /\ C17_Creates(cur) \/ C17_Readable(prog.variables, cur.dst)
C19_Step ==
    (C13_Fetching /\ C19_Arithmetic(C13_Cur)) =>
        /\ at' = "execute"
        /\ exitCode' = exitCode
        /\ C13_Read(prog'.variables, C13_Cur.dst) =
              C19_Wrapped(IF C13_Cur.ins = "Add"
                          THEN C19_Before(C13_Cur) + C13_Read(prog.variables, C13_Cur.src)
                          ELSE C19_Before(C13_Cur) - C13_Read(prog.variables, C13_Cur.src))
\* C19 as stated: Add and Sub store the exact sum or difference of the
\* destination's value and the source's value reduced modulo 2^64 into the
\* signed range, and the step completes normally: an overflow never aborts
\* the checker and never ends in an error verdict
C19_AsStated == [][C19_Step]_vars
\* the step that adds the greatest i64 to a positive n has aborted the
\* checker
C19_Witness ==
    /\ source = "*slaps " \o ToString(I64_MAX) \o " on top of n*"
    /\ at = "abort"
    /\ prog.pc = 2
    /\ prog.variables["n"].int > 0
    /\ exitCode = 101

\* ------------------------------------------------------------------- C20
C20_Step ==
    C13_Stepping =>
        /\ at' \in {"execute", "trial_end"}
        /\ exitCode' = exitCode
        /\ at' = "trial_end" =>
              /\ verdict'.tag = "RuntimeError"
              /\ verdict'.line = prog.pc
              /\ prog' = [prog EXCEPT !.runtime = prog'.runtime]
\* C20 as stated: a step that fails is free of side effects apart from the
\* cost charged: the RuntimeError carries the pc before the step, and pc, the
\* environment, the input queue, the output queue and the returned flag are
\* as before the step (no destination created, no input consumed); and an
\* error always comes back as a verdict, never as an abort of the checker
C20_AsStated == [][C20_Step]_vars
\* a step whose fetch is out of range has aborted the checker instead of
\* returning its RuntimeError
C20_Witness ==
    /\ at = "abort"
    /\ build = "checked"
    /\ prog.pc >= Len(prog.instructions)
    /\ verdict = NoVerdict

\* ------------------------------------------------------------------- C21
\* no execution makes more than floor(T / 5) + 1 steps that return Ok
C21_StepBound ==
    at \in {"execute", "trial_end", "abort"} => steps <= (TimeLimit(task) \div 5) + 1
\* an execution that is over has stopped in one of three ways: Ok after
\* Return, RuntimeError, TimeLimitExceeded
C21_ThreeWays ==
    at = "trial_end" =>
        \/ prog.returned /\ verdict.tag \in {"Correct", "WrongAnswer"}
        \/ ~prog.returned /\ verdict.tag \in {"RuntimeError", "TimeLimitExceeded"}
\* the trials the battery still has to run from trial (size, trial) on, that
\* trial included
RECURSIVE C21_TrialsLeft(_, _, _)
C21_TrialsLeft(t, size, trial) ==
    IF size > LastSize(t) THEN 0
    ELSE (Repeats(t, size) - trial) + C21_TrialsLeft(t, size + 1, 0)
\* a rank of the states of the checker, ordered lexicographically: the
\* phase of work, the phase of judge, the trials left, the phase of the
\* trial, and the budget a running execution has left
C21_Rank(a, f, t, size, trial, p) ==
    <<CASE a = "work" -> 4
        [] a \in {"exit", "abort"} -> 0
        [] a = "main" -> 1
        [] OTHER -> IF f = "ans" THEN 3 ELSE 2,
      CASE a = "judge" -> 2
        [] a \in {"prepare", "execute", "trial_end"} -> 1
        [] OTHER -> 0,
      IF a \in {"prepare", "execute", "trial_end"}
      THEN C21_TrialsLeft(t, size, trial) ELSE 0,
      CASE a = "prepare" -> 2 [] a = "execute" -> 1 [] OTHER -> 0,
      IF a = "execute" /\ ~p.returned /\ ~(p.runtime > TimeLimit(t))
      THEN 1 + (TimeLimit(t) - p.runtime) ELSE 0>>
RECURSIVE C21_Less(_, _)
C21_Less(r, q) ==
    /\ r # <<>>
    /\ \/ Head(r) < Head(q)
       \/ Head(r) = Head(q) /\ C21_Less(Tail(r), Tail(q))
\* every step of the checker lowers the rank, whose components are natural
\* numbers: every execution, every trial battery and every call of judge
\* comes to an end, in every build
C21_Decreases ==
    [][C21_Less(C21_Rank(at', file', task', n', rep', prog'),
                C21_Rank(at, file, task, n, rep, prog))]_vars
\* C21 as stated: for every compiled program, every input queue and every
\* time limit T an execution stops as Ok after Return, as RuntimeError or as
\* TimeLimitExceeded and in no other way, after at most floor(T / 5) + 1
\* successful steps, since every fetched line costs at least 5
C21_AsStated ==
    /\ C21_StepBound
    /\ C21_ThreeWays
    /\ at # "abort"
\* an execution has stopped in a fourth way: an overflowing step has aborted
\* the checker in the middle of a trial
C21_Witness ==
    /\ at = "abort"
    /\ steps > 0
    /\ ~prog.returned
    /\ exitCode = 101

=============================================================================
